---- MODULE Spec2Model ----
(***************************************************************************)
(* The daily batch pipeline of the trading bot: the technical-indicator    *)
(* stage (4_technical_indicators.py) and the feature-engineering stage     *)
(* (5_feature_engineering.py), as a state machine over the data frames    *)
(* each stage reads and writes; with it the sentiment stage                *)
(* (3_sentiment_analysis.py) and the Google Sheets client                  *)
(* (google_sheets_client.py).                                              *)
(***************************************************************************)
EXTENDS Integers, Sequences, FiniteSets, TLC

VARIABLES
    stage,             \* position of the batch run
    prices_crypto,     \* data/raw/prices_crypto.csv
    prices_stocks,     \* data/raw/prices_stocks.csv
    prices,            \* the combined frame of load_price_data
    technical,         \* data/processed/technical_features.csv
    market_sentiment,  \* data/processed/market_sentiment.csv (may be absent)
    google_trends,     \* data/raw/google_trends.csv (may be absent)
    df,                \* the frame handed from step to step of a stage
    columns,           \* the column order of df
    run2,              \* a second run of stage 4, on price files of its own
    articles,          \* the article file read by 3_sentiment_analysis.py
    scorer,            \* how stage 3 is run: use_transformer, and whether the model loads
    sentiment_df,      \* the result of analyze_sentiment_transformer
    mentions_df,       \* the result of detect_asset_mentions
    disk,              \* the files under data/, for the runs of the main() functions
    exit_status,       \* which main() ran last and how it ended
    spreadsheet,       \* the worksheets of the Google spreadsheet
    positions,         \* what the caller handed to the save functions
    loaded             \* what get_open_positions returned

(* the state of the scripts a specification does not run *)
other_scripts == << articles, scorer, sentiment_df, mentions_df, disk, exit_status,
                    spreadsheet, positions, loaded >>

vars == << stage, prices_crypto, prices_stocks, prices, technical,
           market_sentiment, google_trends, df, columns, run2, other_scripts >>

(***************************************************************************)
(* Floating-point values of the data frames.  A value is a record [n, d]:  *)
(* d > 0 is the rational n/d in lowest terms; d = 0 encodes the IEEE       *)
(* specials: n = 0 is NaN, n = 1 is +inf, n = -1 is -inf.  Operations      *)
(* follow IEEE 754: NaN propagates, a comparison with NaN is false, x/0 is *)
(* an infinity and 0/0 is NaN.  A square root is taken to 1/100 and an     *)
(* exponential average to 1/1000, the other operations are exact.          *)
(***************************************************************************)
RECURSIVE GCD(_, _)
GCD(a, b) == IF b = 0 THEN a ELSE GCD(b, a % b)

Abs(x) == IF x < 0 THEN -x ELSE x

Sgn(x) == IF x > 0 THEN 1 ELSE IF x < 0 THEN -1 ELSE 0

NaN == [n |-> 0, d |-> 0]

RatG(a, b, g) == [n |-> Sgn(b) * (a \div g), d |-> Abs(b) \div g]

Rat(a, b) == IF b = 0 THEN [n |-> Sgn(a), d |-> 0] ELSE RatG(a, b, GCD(Abs(a), Abs(b)))

Num(a) == [n |-> a, d |-> 1]

IsNaN(x) == x.d = 0 /\ x.n = 0

IsInf(x) == x.d = 0 /\ x.n # 0

IsNum(x) == x.d > 0

FAdd(x, y) ==
    IF IsNaN(x) \/ IsNaN(y) THEN NaN
    ELSE IF IsInf(x) /\ IsInf(y) THEN (IF x.n = y.n THEN x ELSE NaN)
    ELSE IF IsInf(x) THEN x
    ELSE IF IsInf(y) THEN y
    ELSE Rat(x.n * y.d + y.n * x.d, x.d * y.d)

FNeg(x) == [n |-> -x.n, d |-> x.d]

FSub(x, y) == FAdd(x, FNeg(y))

FMul(x, y) ==
    IF IsNaN(x) \/ IsNaN(y) THEN NaN
    ELSE IF IsInf(x) \/ IsInf(y)
         THEN (IF x.n = 0 \/ y.n = 0 THEN NaN ELSE [n |-> Sgn(x.n) * Sgn(y.n), d |-> 0])
    ELSE Rat(x.n * y.n, x.d * y.d)

FDiv(x, y) ==
    IF IsNaN(x) \/ IsNaN(y) THEN NaN
    ELSE IF IsInf(x) THEN (IF IsInf(y) THEN NaN
                           ELSE [n |-> x.n * (IF y.n < 0 THEN -1 ELSE 1), d |-> 0])
    ELSE IF IsInf(y) THEN Num(0)
    ELSE IF y.n = 0 THEN [n |-> Sgn(x.n), d |-> 0]
    ELSE Rat(x.n * y.d, x.d * y.n)

FLt(x, y) ==
    IF IsNaN(x) \/ IsNaN(y) THEN FALSE
    ELSE IF IsInf(x) THEN x.n < 0 /\ ~(IsInf(y) /\ y.n < 0)
    ELSE IF IsInf(y) THEN y.n > 0
    ELSE x.n * y.d < y.n * x.d

FGt(x, y) == FLt(y, x)

FAbs(x) == [n |-> Abs(x.n), d |-> x.d]

FSign(x) == IF IsNaN(x) THEN NaN ELSE Num(Sgn(x.n))

FillNa(x, v) == IF IsNaN(x) THEN v ELSE x

(* (condition).astype(int) *)
Flag(b) == [n |-> IF b THEN 1 ELSE 0, d |-> 1]

RECURSIVE ISqrtFrom(_, _)
ISqrtFrom(n, r) == IF r <= n \div r THEN r ELSE ISqrtFrom(n, (r + n \div r) \div 2)

ISqrt(n) == IF n <= 0 THEN 0 ELSE ISqrtFrom(n, n)

FSqrt(x) ==
    IF IsNaN(x) \/ x.n < 0 THEN NaN
    ELSE IF IsInf(x) THEN x
    ELSE Rat(ISqrt((x.n \div x.d) * 10000 + ((x.n % x.d) * 10000) \div x.d), 100)

(***************************************************************************)
(* pandas Series operations.  A column is a sequence of values, one per    *)
(* row.  Sequences are built and folded by halving the index range.        *)
(***************************************************************************)
Mid(lo, hi) == (lo + hi) \div 2

Last(s) == s[Len(s)]

(* << F(lo), ..., F(hi) >> *)
RECURSIVE Tab(_, _, _)
Tab(F(_), lo, hi) ==
    IF lo > hi THEN << >>
    ELSE IF lo = hi THEN << F(lo) >>
    ELSE Tab(F, lo, Mid(lo, hi)) \o Tab(F, Mid(lo, hi) + 1, hi)

(* a column computed row by row over the rows of xs *)
Col(xs, F(_)) == Tab(F, 1, Len(xs))

(* The running values s[lo..hi] of s[i] = Op(s[i-1], xs[i]), s[lo-1] = s0 *)
ScanJoin(left, Rest(_)) == left \o Rest(Last(left))

RECURSIVE Scan(_, _, _, _, _)
Scan(Op(_, _), xs, lo, hi, s0) ==
    IF lo > hi THEN << >>
    ELSE IF lo = hi THEN << Op(s0, xs[lo]) >>
    ELSE ScanJoin(Scan(Op, xs, lo, Mid(lo, hi), s0),
                  LAMBDA s : Scan(Op, xs, Mid(lo, hi) + 1, hi, s))

Diff_LookAhead(xs, k) ==
    Col(xs, LAMBDA i : IF i + k \in DOMAIN xs THEN FSub(xs[i + k], xs[i]) ELSE NaN)

(* Series.diff(k), Series.shift(k), Series.pct_change(k); k may be negative *)
Diff(xs, k) ==
    Col(xs, LAMBDA i : IF i - k \in DOMAIN xs THEN FSub(xs[i], xs[i - k]) ELSE NaN)

Shift(xs, k) == Col(xs, LAMBDA i : IF i - k \in DOMAIN xs THEN xs[i - k] ELSE NaN)

PctChange(xs, k) ==
    Col(xs, LAMBDA i :
        IF i - k \in DOMAIN xs THEN FSub(FDiv(xs[i], xs[i - k]), Num(1)) ELSE NaN)

SeriesSub(a, b) == Col(a, LAMBDA i : FSub(a[i], b[i]))

Squares(xs) == Col(xs, LAMBDA i : FMul(xs[i], xs[i]))

(* Series.cumsum() *)
CumSum(xs) == Scan(FAdd, xs, 1, Len(xs), Num(0))

(* The accumulators of a pandas rolling window: the sum of the non-NaN     *)
(* values in the window and their count; a value is added when it enters   *)
(* the window and removed when it leaves.                                  *)
AddSkipNa(acc, v) == FAdd(acc, FillNa(v, Num(0)))

CountSkipNa(acc, v) == IF IsNaN(v) THEN acc ELSE acc + 1

Indices(xs) == Tab(LAMBDA i : i, 1, Len(xs))

SlideSum(acc, xs, i, w) ==
    IF i > w THEN FSub(AddSkipNa(acc, xs[i]), FillNa(xs[i - w], Num(0)))
    ELSE AddSkipNa(acc, xs[i])

SlideCount(acc, xs, i, w) ==
    IF i > w THEN CountSkipNa(acc, xs[i]) - CountSkipNa(0, xs[i - w])
    ELSE CountSkipNa(acc, xs[i])

WindowSums(xs, w) ==
    Scan(LAMBDA acc, i : SlideSum(acc, xs, i, w), Indices(xs), 1, Len(xs), Num(0))

WindowCounts(xs, w) ==
    Scan(LAMBDA acc, i : SlideCount(acc, xs, i, w), Indices(xs), 1, Len(xs), 0)

SumOf(s, c, minp) == IF c >= minp /\ c > 0 THEN s ELSE NaN

MeanOf(s, c, minp) == IF c >= minp /\ c > 0 THEN FDiv(s, Num(c)) ELSE NaN

(* sample standard deviation (ddof = 1) from the sum and sum of squares *)
StdOf(s, s2, c, minp) ==
    IF c >= minp /\ c > 1
    THEN FSqrt(FDiv(FSub(FMul(Num(c), s2), FMul(s, s)), Num(c * (c - 1))))
    ELSE NaN

RollingSumFrom(sums, counts, minp) ==
    Col(sums, LAMBDA i : SumOf(sums[i], counts[i], minp))

RollingMeanFrom(sums, counts, minp) ==
    Col(sums, LAMBDA i : MeanOf(sums[i], counts[i], minp))

RollingStdFrom(sums, squares, counts, minp) ==
    Col(sums, LAMBDA i : StdOf(sums[i], squares[i], counts[i], minp))

(* Series.rolling(w, min_periods=minp).sum() / .mean() / .std() *)
RollingSumMin(xs, w, minp) == RollingSumFrom(WindowSums(xs, w), WindowCounts(xs, w), minp)

RollingMeanMin(xs, w, minp) == RollingMeanFrom(WindowSums(xs, w), WindowCounts(xs, w), minp)

RollingStdMin(xs, w, minp) ==
    RollingStdFrom(WindowSums(xs, w), WindowSums(Squares(xs), w), WindowCounts(xs, w), minp)

(* Series.rolling(window=w): min_periods defaults to the window *)
RollingMean(xs, w) == RollingMeanMin(xs, w, w)

RollingStd(xs, w) == RollingStdMin(xs, w, w)

(* Series.ewm(span, adjust=False).mean(): y[1] = x[1],                     *)
(* y[i] = (1 - a) y[i-1] + a x[i] with a = 2 / (span + 1).                 *)
EwmStep(span, prev, v) ==
    IF IsNaN(v) THEN prev
    ELSE IF IsNaN(prev) THEN Rat((v.n * 1000) \div v.d, 1000)
    ELSE Rat(((span - 1) * ((prev.n * 1000) \div prev.d) * v.d + 2 * v.n * 1000)
                 \div ((span + 1) * v.d), 1000)

Ewm(xs, span) == Scan(LAMBDA prev, v : EwmStep(span, prev, v), xs, 1, Len(xs), NaN)

(***************************************************************************)
(* The indicators of 4_technical_indicators.py                             *)
(***************************************************************************)
PARAMS == [rsi_period |-> 14, macd_fast |-> 12, macd_slow |-> 26, macd_signal |-> 9,
           bollinger_period |-> 20, bollinger_std |-> 2,
           ma_short |-> 7, ma_medium |-> 30, ma_long |-> 90, volume_ma |-> 20]

(* the configuration of 5_feature_engineering.py *)
FORWARD_PERIODS == << 3, 7, 14 >>

SENTIMENT_LAG_DAYS == 7

Gains(delta) == Col(delta, LAMBDA i : IF FGt(delta[i], Num(0)) THEN delta[i] ELSE Num(0))

Losses(delta) ==
    Col(delta, LAMBDA i : FNeg(IF FLt(delta[i], Num(0)) THEN delta[i] ELSE Num(0)))

(* rsi = 100 - (100 / (1 + rs)), lines 115-116 *)
RsiValue(gain, loss) == FSub(Num(100), FDiv(Num(100), FAdd(Num(1), FDiv(gain, loss))))

RsiOf(gain, loss) == Col(gain, LAMBDA i : RsiValue(gain[i], loss[i]))

RsiFrom(delta, period) ==
    RsiOf(RollingMean(Gains(delta), period), RollingMean(Losses(delta), period))

calculate_rsi(series, period) == RsiFrom(Diff(series, 1), period)

MacdPack(macd, sig) == [macd |-> macd, signal |-> sig, histogram |-> SeriesSub(macd, sig)]

MacdFrom(macd, signal) == MacdPack(macd, Ewm(macd, signal))

calculate_macd(series, fast, slow, signal) ==
    MacdFrom(SeriesSub(Ewm(series, fast), Ewm(series, slow)), signal)

BollingerFrom(middle, std, std_dev) ==
    [upper  |-> Col(middle, LAMBDA i : FAdd(middle[i], FMul(std[i], Num(std_dev)))),
     middle |-> middle,
     lower  |-> Col(middle, LAMBDA i : FSub(middle[i], FMul(std[i], Num(std_dev))))]

calculate_bollinger_bands(series, period, std_dev) ==
    BollingerFrom(RollingMean(series, period), RollingStd(series, period), std_dev)

(* np.sqrt(252) to the resolution of FSqrt *)
Sqrt252 == [n |-> 1587, d |-> 100]

Annualize(std) == Col(std, LAMBDA i : FMul(std[i], Sqrt252))

calculate_volatility_MinPeriods2(series, period) ==
    Annualize(RollingStdMin(PctChange(series, 1), period, 2))

(* lines 167-177 *)
calculate_volatility(series, period) == Annualize(RollingStd(PctChange(series, 1), period))

calculate_moving_averages(series, periods) ==
    [ma_short  |-> RollingMean(series, periods[1]),
     ma_medium |-> RollingMean(series, periods[2]),
     ma_long   |-> RollingMean(series, periods[3])]

SignedVolume(dclose, volume) ==
    Col(volume, LAMBDA i : FillNa(FMul(FSign(dclose[i]), volume[i]), Num(0)))

VolumePack(volume, volume_ma, obv) ==
    [volume_ma    |-> volume_ma,
     volume_ratio |-> Col(volume, LAMBDA i : FDiv(volume[i], volume_ma[i])),
     obv          |-> obv]

calculate_volume_indicators(volume, close, period) ==
    VolumePack(volume, RollingMean(volume, period),
               CumSum(SignedVolume(Diff(close, 1), volume)))

(* The columns one row gains in the per-asset loop, lines 229-290 *)
TechRow(i, close, rsi, m, bb, mas, vola, r1, r7, r30, vol) ==
    [rsi |-> rsi[i],
     macd |-> m.macd[i], macd_signal |-> m.signal[i], macd_histogram |-> m.histogram[i],
     bb_upper |-> bb.upper[i], bb_middle |-> bb.middle[i], bb_lower |-> bb.lower[i],
     bb_width |-> FDiv(FSub(bb.upper[i], bb.lower[i]), bb.middle[i]),
     bb_position |-> FDiv(FSub(close[i], bb.lower[i]), FSub(bb.upper[i], bb.lower[i])),
     ma_7 |-> mas.ma_short[i], ma_30 |-> mas.ma_medium[i], ma_90 |-> mas.ma_long[i],
     ma_cross_short_medium |-> Flag(FGt(mas.ma_short[i], mas.ma_medium[i])),
     volatility |-> vola[i],
     returns_1d |-> r1[i], returns_7d |-> r7[i], returns_30d |-> r30[i],
     volume_ma |-> vol.volume_ma[i], volume_ratio |-> vol.volume_ratio[i],
     obv |-> vol.obv[i],
     momentum_7d |-> IF i > 7 THEN FSub(close[i], close[i - 7]) ELSE NaN,
     momentum_30d |-> IF i > 30 THEN FSub(close[i], close[i - 30]) ELSE NaN,
     dist_from_ma_short |->
         FMul(FSub(FDiv(close[i], mas.ma_short[i]), Num(1)), Num(100)),
     dist_from_ma_medium |->
         FMul(FSub(FDiv(close[i], mas.ma_medium[i]), Num(1)), Num(100))]

TechJoin(rows, close, rsi, m, bb, mas, vola, r1, r7, r30, vol) ==
    Col(rows, LAMBDA i :
        rows[i] @@ TechRow(i, close, rsi, m, bb, mas, vola, r1, r7, r30, vol))

TechColumns(rows, close, volume) ==
    TechJoin(rows, close,
             calculate_rsi(close, PARAMS.rsi_period),
             calculate_macd(close, PARAMS.macd_fast, PARAMS.macd_slow, PARAMS.macd_signal),
             calculate_bollinger_bands(close, PARAMS.bollinger_period, PARAMS.bollinger_std),
             calculate_moving_averages(close,
                 << PARAMS.ma_short, PARAMS.ma_medium, PARAMS.ma_long >>),
             calculate_volatility(close, 20),
             PctChange(close, 1), PctChange(close, 7), PctChange(close, 30),
             calculate_volume_indicators(volume, close, PARAMS.volume_ma))

CloseOf(rows) == Col(rows, LAMBDA i : rows[i].close)

VolumeOf(rows) == Col(rows, LAMBDA i : rows[i].volume)

(* The body of the per-asset loop of calculate_technical_features: the     *)
(* rows of one asset, sorted by date, with the indicator columns added.    *)
AssetIndicators(rows) == TechColumns(rows, CloseOf(rows), VolumeOf(rows))

(***************************************************************************)
(* DataFrame helpers.  A frame is a sequence of rows (records).  Assets    *)
(* are numbered in the order of their names, dates are day numbers.        *)
(***************************************************************************)
(* DataFrame.sort_values on an integer key in lo..hi (rows with equal keys *)
(* keep their order).                                                      *)
RECURSIVE SortByKey(_, _, _, _)
SortByKey(rows, Key(_), lo, hi) ==
    IF Len(rows) <= 1 \/ lo >= hi THEN rows
    ELSE SortByKey(SelectSeq(rows, LAMBDA r : Key(r) <= Mid(lo, hi)), Key, lo, Mid(lo, hi))
         \o SortByKey(SelectSeq(rows, LAMBDA r : Key(r) > Mid(lo, hi)),
                      Key, Mid(lo, hi) + 1, hi)

RowAsset(r) == r.asset

RowDate(r) == r.date

Range(f) == {f[i] : i \in DOMAIN f}

(* Series.unique(): the distinct values in order of first appearance *)
AppendNew(acc, v) == IF v \in Range(acc) THEN acc ELSE Append(acc, v)

Unique(xs) == IF Len(xs) = 0 THEN << >> ELSE Last(Scan(AppendNew, xs, 1, Len(xs), << >>))

AssetOf(rows) == Col(rows, LAMBDA i : rows[i].asset)

(* pd.concat of a list of frames *)
RECURSIVE Concat(_, _, _)
Concat(frames, lo, hi) ==
    IF lo > hi THEN << >>
    ELSE IF lo = hi THEN frames[lo]
    ELSE Concat(frames, lo, Mid(lo, hi)) \o Concat(frames, Mid(lo, hi) + 1, hi)

(* df[df['asset'] == asset] *)
RowsOfAsset(frame, asset) == SelectSeq(frame, LAMBDA r : r.asset = asset)

(***************************************************************************)
(* Stage 4: 4_technical_indicators.py                                      *)
(***************************************************************************)
MinObs == 100

MaxExtra == 1

MaxPrice == 3

Assets == {1, 2}

(* the shortest series of which a row keeps a value of ma_90 once the rows  *)
(* without a 14-day target are gone                                        *)
LongEnough == PARAMS.ma_long + FORWARD_PERIODS[3]

MaxDate == LongEnough + MaxExtra + 1

SortByAssetDate_DateOnly(rows) == SortByKey(rows, RowDate, 0, MaxDate)

(* DataFrame.sort_values(["asset", "date"]) *)
SortByAssetDate(rows) ==
    SortByKey(SortByKey(rows, RowDate, 0, MaxDate), RowAsset, 1, Cardinality(Assets))

CryptoRow(r) ==
    [date |-> r.date, asset |-> r.asset, asset_type |-> "crypto",
     open |-> r.price, high |-> r.price, low |-> r.price, close |-> r.price,
     volume |-> r.volume]

StockRow(r) ==
    [date |-> r.date, asset |-> r.asset, asset_type |-> "stock",
     open |-> r.open, high |-> r.high, low |-> r.low, close |-> r.close,
     volume |-> r.volume]

(* load_price_data: the crypto file's price becomes close, and open, high  *)
(* and low are set to it; the two frames are concatenated and sorted by    *)
(* (asset, date).                                                          *)
load_price_data(crypto, stocks) ==
    SortByAssetDate(Col(crypto, LAMBDA i : CryptoRow(crypto[i]))
                    \o Col(stocks, LAMBDA i : StockRow(stocks[i])))

HasEnoughData_StrictlyMore(df_asset) == Len(df_asset) > MinObs

(* the test of line 221 *)
HasEnoughData(df_asset) == ~(Len(df_asset) < MinObs)

(* one turn of the loop of lines 218-292: a skipped asset appends nothing *)
LoopBody(df_asset) ==
    IF HasEnoughData(df_asset)
    THEN [keep |-> TRUE, rows |-> AssetIndicators(df_asset)]
    ELSE [keep |-> FALSE, rows |-> << >>]

LoopOverAssets(frame, assets) ==
    Col(assets, LAMBDA k :
        LoopBody(SortByKey(RowsOfAsset(frame, assets[k]), RowDate, 0, MaxDate)))

FramesOf(parts) == Col(parts, LAMBDA k : parts[k].rows)

(* line 294: pd.concat raises ValueError on an empty list (ok = FALSE) *)
ConcatFeatures(all_features) ==
    IF Len(all_features) = 0
    THEN [ok |-> FALSE, rows |-> << >>]
    ELSE [ok |-> TRUE, rows |-> Concat(FramesOf(all_features), 1, Len(all_features))]

calculate_technical_features(frame) ==
    ConcatFeatures(SelectSeq(LoopOverAssets(frame, Unique(AssetOf(frame))),
                             LAMBDA p : p.keep))

PRICE_COLUMNS == << "date", "asset", "asset_type", "open", "high", "low", "close", "volume" >>

TECHNICAL_COLUMNS ==
    << "rsi", "macd", "macd_signal", "macd_histogram",
       "bb_upper", "bb_middle", "bb_lower", "bb_width", "bb_position",
       "ma_7", "ma_30", "ma_90", "ma_cross_short_medium", "volatility",
       "returns_1d", "returns_7d", "returns_30d",
       "volume_ma", "volume_ratio", "obv",
       "momentum_7d", "momentum_30d", "dist_from_ma_short", "dist_from_ma_medium" >>

(***************************************************************************)
(* Stage 5: 5_feature_engineering.py                                       *)
(***************************************************************************)
ColumnOf(rows, name) == Col(rows, LAMBDA i : rows[i][name])

(* the record with the fields F(lo), ..., F(hi), each a one-field record *)
RECURSIVE Fields(_, _, _)
Fields(F(_), lo, hi) ==
    IF lo > hi THEN << >>
    ELSE IF lo = hi THEN F(lo)
    ELSE Fields(F, lo, Mid(lo, hi)) @@ Fields(F, Mid(lo, hi) + 1, hi)

(* groupby("asset"): the position of every row among the rows of its asset *)
CountAsset(acc, r) == [acc EXCEPT ![r.asset] = @ + 1]

RanksFrom(frame, counts) == Col(frame, LAMBDA i : counts[i][frame[i].asset])

Ranks(frame) ==
    RanksFrom(frame, Scan(CountAsset, frame, 1, Len(frame), [a \in Assets |-> 0]))

Scatter(frame, ranks, parts) == Col(frame, LAMBDA i : parts[frame[i].asset][ranks[i]])

(* groupby("asset")[...].transform(F): F is applied to the rows of each    *)
(* asset, in frame order, and its values return to the rows' positions.    *)
Grouped(frame, ranks, F(_)) ==
    Scatter(frame, ranks,
            Tab(LAMBDA a : F(RowsOfAsset(frame, a)), 1, Cardinality(Assets)))

TargetReturnName(period) ==
    CASE period = 3 -> "target_return_3d"
      [] period = 7 -> "target_return_7d"
      [] period = 14 -> "target_return_14d"

TargetDirectionName(period) ==
    CASE period = 3 -> "target_direction_3d"
      [] period = 7 -> "target_direction_7d"
      [] period = 14 -> "target_direction_14d"

(* line 128 *)
Threshold(period) ==
    IF period >= 14 THEN Rat(3, 100) ELSE IF period >= 7 THEN Rat(2, 100) ELSE Rat(15, 1000)

(* line 123: x.pct_change(periods=-period) *)
ForwardReturn(x, period) == PctChange(x, -period)

Direction_AtLeast(ret, threshold) ==
    IF FLt(ret, FNeg(threshold)) THEN Num(0) ELSE Flag(~FLt(ret, threshold) /\ ~IsNaN(ret))

(* lines 129-134: (return > threshold).astype(int), then 0 where the       *)
(* return is below -threshold                                              *)
Direction(ret, threshold) ==
    IF FLt(ret, FNeg(threshold)) THEN Num(0) ELSE Flag(FGt(ret, threshold))

TargetFields(rets, periods, i) ==
    Fields(LAMBDA k : (TargetReturnName(periods[k]) :> rets[k][i])
                      @@ (TargetDirectionName(periods[k])
                              :> Direction(rets[k][i], Threshold(periods[k]))),
           1, Len(periods))

TargetsJoin(frame, rets, periods) ==
    Col(frame, LAMBDA i : frame[i] @@ TargetFields(rets, periods, i))

TargetReturns(frame, ranks, periods) ==
    Col(periods, LAMBDA k :
        Grouped(frame, ranks, LAMBDA rows : ForwardReturn(CloseOf(rows), periods[k])))

create_targets_Ungrouped(frame, forward_periods) ==
    TargetsJoin(frame,
                Col(forward_periods, LAMBDA k :
                    ForwardReturn(CloseOf(frame), forward_periods[k])),
                forward_periods)

(* lines 103-148 *)
create_targets(frame, forward_periods) ==
    TargetsJoin(frame, TargetReturns(frame, Ranks(frame), forward_periods), forward_periods)

TargetColumns(periods) ==
    Concat(Col(periods, LAMBDA k :
               << TargetReturnName(periods[k]), TargetDirectionName(periods[k]) >>),
           1, Len(periods))

(* Series.mean(), .max(), .min(), .std() of a non-empty window; NaN values *)
(* are skipped                                                             *)
SeriesSum(xs) == Last(Scan(AddSkipNa, xs, 1, Len(xs), Num(0)))

SeriesCount(xs) == Last(Scan(CountSkipNa, xs, 1, Len(xs), 0))

SeriesMean(xs) == MeanOf(SeriesSum(xs), SeriesCount(xs), 1)

SeriesStd(xs) == StdOf(SeriesSum(xs), SeriesSum(Squares(xs)), SeriesCount(xs), 1)

MaxSkipNa(acc, v) == IF IsNaN(acc) \/ FGt(v, acc) THEN v ELSE acc

MinSkipNa(acc, v) == IF IsNaN(acc) \/ FLt(v, acc) THEN v ELSE acc

SeriesMax(xs) == Last(Scan(MaxSkipNa, xs, 1, Len(xs), NaN))

SeriesMin(xs) == Last(Scan(MinSkipNa, xs, 1, Len(xs), NaN))

(* lines 183-186 and 247-251: the rows of the table dated date - lag .. date *)
InLagWindow(d, date, lag_days) == d >= date - lag_days /\ d <= date

SentimentWindow(table, date, lag_days) ==
    SelectSeq(table, LAMBDA s : InLagWindow(s.date, date, lag_days))

TrendsWindow(table, asset, date, lag_days) ==
    SelectSeq(table, LAMBDA s : s.asset = asset /\ InLagWindow(s.date, date, lag_days))

(* lines 188-207 *)
SentimentFeatures(sentiment_window) ==
    IF Len(sentiment_window) > 0
    THEN [sentiment_mean_7d  |-> SeriesMean(ColumnOf(sentiment_window, "sentiment_mean")),
          sentiment_std_7d   |-> SeriesMean(ColumnOf(sentiment_window, "sentiment_std")),
          sentiment_trend_7d |->
              IF Len(sentiment_window) > 1
              THEN FSub(Last(sentiment_window).sentiment_mean,
                        sentiment_window[1].sentiment_mean)
              ELSE Num(0),
          stress_index_7d    |-> SeriesMean(ColumnOf(sentiment_window, "stress_index"))]
    ELSE [sentiment_mean_7d |-> Num(0), sentiment_std_7d |-> Num(0),
          sentiment_trend_7d |-> Num(0), stress_index_7d |-> Num(0)]

SENTIMENT_COLUMNS ==
    << "sentiment_mean_7d", "sentiment_std_7d", "sentiment_trend_7d", "stress_index_7d" >>

(* a table that was not found is None and the frame is returned as it is *)
merge_sentiment_features(df_technical, df_market_sentiment, sentiment_lag_days) ==
    IF ~df_market_sentiment.exists THEN df_technical
    ELSE Col(df_technical, LAMBDA i :
             df_technical[i] @@ SentimentFeatures(
                 SentimentWindow(df_market_sentiment.rows, df_technical[i].date,
                                 sentiment_lag_days)))

TrendsFeatures_ZeroDefault(trends_window) ==
    IF Len(trends_window) > 0
    THEN [trends_interest_mean_7d  |-> SeriesMean(ColumnOf(trends_window, "interest")),
          trends_interest_max_7d   |-> SeriesMax(ColumnOf(trends_window, "interest")),
          trends_interest_min_7d   |-> SeriesMin(ColumnOf(trends_window, "interest")),
          trends_interest_std_7d   |-> SeriesStd(ColumnOf(trends_window, "interest")),
          trends_interest_trend_7d |->
              IF Len(trends_window) > 1
              THEN FSub(Last(trends_window).interest, trends_window[1].interest)
              ELSE Num(0),
          trends_interest_current  |-> Last(trends_window).interest]
    ELSE [trends_interest_mean_7d |-> Num(0), trends_interest_max_7d |-> Num(0),
          trends_interest_min_7d |-> Num(0), trends_interest_std_7d |-> Num(0),
          trends_interest_trend_7d |-> Num(0), trends_interest_current |-> Num(0)]

(* lines 253-278 *)
TrendsFeatures(trends_window) ==
    IF Len(trends_window) > 0
    THEN [trends_interest_mean_7d  |-> SeriesMean(ColumnOf(trends_window, "interest")),
          trends_interest_max_7d   |-> SeriesMax(ColumnOf(trends_window, "interest")),
          trends_interest_min_7d   |-> SeriesMin(ColumnOf(trends_window, "interest")),
          trends_interest_std_7d   |-> SeriesStd(ColumnOf(trends_window, "interest")),
          trends_interest_trend_7d |->
              IF Len(trends_window) > 1
              THEN FSub(Last(trends_window).interest, trends_window[1].interest)
              ELSE Num(0),
          trends_interest_current  |-> Last(trends_window).interest]
    ELSE [trends_interest_mean_7d |-> Num(50), trends_interest_max_7d |-> Num(50),
          trends_interest_min_7d |-> Num(50), trends_interest_std_7d |-> Num(0),
          trends_interest_trend_7d |-> Num(0), trends_interest_current |-> Num(50)]

TRENDS_COLUMNS ==
    << "trends_interest_mean_7d", "trends_interest_max_7d", "trends_interest_min_7d",
       "trends_interest_std_7d", "trends_interest_trend_7d", "trends_interest_current" >>

merge_google_trends(df_technical, df_trends, trend_lag_days) ==
    IF ~df_trends.exists THEN df_technical
    ELSE Col(df_technical, LAMBDA i :
             df_technical[i] @@ TrendsFeatures(
                 TrendsWindow(df_trends.rows, df_technical[i].asset, df_technical[i].date,
                              trend_lag_days)))

(* x + 1e-8: the addend is below the resolution kept here unless x is 0 *)
AddTiny(x) == IF x = Num(0) THEN [n |-> 1, d |-> 100000000] ELSE x

Has(r, name) == name \in DOMAIN r

(* Series.quantile(q) with q = qn/qd, linear interpolation between the     *)
(* order statistics of the non-NaN values; NaN when there is none.         *)
CountBelow(xs, v) == Cardinality({i \in DOMAIN xs : FLt(xs[i], v)})

CountUpTo(xs, v) == Cardinality({i \in DOMAIN xs : ~FGt(xs[i], v) /\ ~IsNaN(xs[i])})

(* the k-th smallest (k = 0, 1, ...) of the non-NaN values of xs *)
OrderStat(xs, k) ==
    CHOOSE v \in Range(xs) : ~IsNaN(v) /\ CountBelow(xs, v) <= k /\ k < CountUpTo(xs, v)

Interpolate(lo, hi, frac) == FAdd(lo, FMul(frac, FSub(hi, lo)))

QuantileOf(xs, m, qn, qd) ==
    IF m = 0 THEN NaN
    ELSE IF ((m - 1) * qn) % qd = 0 THEN OrderStat(xs, ((m - 1) * qn) \div qd)
    ELSE Interpolate(OrderStat(xs, ((m - 1) * qn) \div qd),
                     OrderStat(xs, ((m - 1) * qn) \div qd + 1),
                     Rat(((m - 1) * qn) % qd, qd))

Quantile(xs, qn, qd) == QuantileOf(xs, Cardinality({i \in DOMAIN xs : ~IsNaN(xs[i])}), qn, qd)

RollingQuantile_WholeColumn(xs, w, qn, qd) == Col(xs, LAMBDA i : Quantile(xs, qn, qd))

(* Series.rolling(w, min_periods=1).quantile(qn/qd), over the rows in      *)
(* frame order                                                             *)
RollingQuantile(xs, w, qn, qd) ==
    Col(xs, LAMBDA i : Quantile(SubSeq(xs, IF i > w THEN i - w + 1 ELSE 1, i), qn, qd))

(* groupby(["date", "asset_type"])[name].transform("mean") *)
SameDayTypeMean(frame, name) ==
    Col(frame, LAMBDA i :
        SeriesMean(ColumnOf(SelectSeq(frame, LAMBDA r : r.date = frame[i].date
                                                   /\ r.asset_type = frame[i].asset_type),
                            name)))

Positive(xs) == Col(xs, LAMBDA i : Flag(FGt(xs[i], Num(0))))

SeriesDiv(a, b) == Col(a, LAMBDA i : FDiv(a[i], b[i]))

(* the columns computed through grouped = df_eng.groupby("asset"), for the *)
(* rows of one asset                                                       *)
GroupedPack(m3, m14, m21, v7, v30, rsi3, rsima, voltrend, days, rsi1, l1, l2, l3, vl1) ==
    Col(m3, LAMBDA i :
        [momentum_3d |-> m3[i], momentum_14d |-> m14[i], momentum_21d |-> m21[i],
         volatility_7d |-> v7[i], volatility_30d |-> v30[i],
         rsi_change_3d |-> rsi3[i], rsi_ma |-> rsima[i], volume_trend |-> voltrend[i],
         trend_days_7d |-> days[i], rsi_lag1 |-> rsi1[i],
         returns_1d_lag1 |-> l1[i], returns_1d_lag2 |-> l2[i], returns_1d_lag3 |-> l3[i],
         volatility_lag1 |-> vl1[i]])

GroupedColumns(close, returns_1d, rsi, volume, volatility) ==
    GroupedPack(PctChange(close, 3), PctChange(close, 14), PctChange(close, 21),
                RollingStdMin(returns_1d, 7, 1), RollingStdMin(returns_1d, 30, 1),
                Diff(rsi, 3), RollingMeanMin(rsi, 7, 1),
                SeriesDiv(RollingMeanMin(volume, 7, 1), RollingMeanMin(volume, 30, 1)),
                RollingSumMin(Positive(returns_1d), 7, 1),
                Shift(rsi, 1),
                Shift(returns_1d, 1), Shift(returns_1d, 2), Shift(returns_1d, 3),
                Shift(volatility, 1))

GroupedFeatures(rows) ==
    GroupedColumns(CloseOf(rows), ColumnOf(rows, "returns_1d"), ColumnOf(rows, "rsi"),
                   VolumeOf(rows), ColumnOf(rows, "volatility"))

(* lines 469-473: pd.cut(rsi, bins=[0, 30, 70, 100]); a value outside      *)
(* (0, 100], or NaN, has no category                                       *)
NoCategory == "nan"

MarketPosition(rsi) ==
    IF FGt(rsi, Num(0)) /\ ~FGt(rsi, Num(30)) THEN "oversold"
    ELSE IF FGt(rsi, Num(30)) /\ ~FGt(rsi, Num(70)) THEN "neutral"
    ELSE IF FGt(rsi, Num(70)) /\ ~FGt(rsi, Num(100)) THEN "overbought"
    ELSE NoCategory

(* lines 306-312 and 423-434: the columns made when sentiment_mean_7d exists *)
SentimentEngineered(r, q) ==
    IF Has(r, "sentiment_mean_7d")
    THEN [sentiment_rsi_interaction |-> FMul(r.sentiment_mean_7d, r.rsi),
          sentiment_volatility_interaction |-> FMul(r.sentiment_mean_7d, r.volatility),
          sentiment_extreme_positive |-> Flag(FGt(r.sentiment_mean_7d, q.mean_high)),
          sentiment_extreme_negative |-> Flag(FLt(r.sentiment_mean_7d, q.mean_low)),
          sentiment_stress_high |-> Flag(FGt(r.stress_index_7d, q.stress_high))]
    ELSE << >>

(* lines 315-337: the columns made when trends_interest_mean_7d exists *)
TrendsEngineered(r) ==
    IF Has(r, "trends_interest_mean_7d")
    THEN [trends_rsi_interaction |->
              FMul(FDiv(r.trends_interest_mean_7d, Num(100)), r.rsi),
          trends_volatility_interaction |->
              FMul(FDiv(r.trends_interest_mean_7d, Num(100)), r.volatility),
          trends_momentum_interaction |-> FMul(r.trends_interest_trend_7d, r.returns_7d),
          trends_spike |->
              Flag(FGt(r.trends_interest_current,
                       FMul(r.trends_interest_mean_7d, Rat(3, 2))))]
         @@ (IF Has(r, "sentiment_mean_7d")
             THEN [trends_sentiment_combined |->
                       FMul(FDiv(r.trends_interest_mean_7d, Num(100)), r.sentiment_mean_7d)]
             ELSE << >>)
    ELSE << >>

(* the columns computed from the values of the row itself; g holds the     *)
(* row's grouped columns                                                   *)
RowEngineered(r, g, relative_mean, squeeze_level) ==
    [volatility_regime |-> Flag(FGt(g.volatility_7d, g.volatility_30d)),
     price_to_ma7 |-> FDiv(FSub(r.close, r.ma_7), AddTiny(r.ma_7)),
     price_to_ma30 |-> FDiv(FSub(r.close, r.ma_30), AddTiny(r.ma_30)),
     volume_surge |-> Flag(FGt(r.volume_ratio, Rat(3, 2))),
     returns_positive |-> Flag(FGt(r.returns_1d, Num(0))),
     return_7d_relative |-> FSub(r.returns_7d, relative_mean),
     volume_to_volatility |-> FDiv(r.volume_ratio, FAdd(r.volatility, Rat(1, 1000))),
     trend_strength |->
         FMul(FAbs(r.returns_7d), FDiv(Num(1), FAdd(r.volatility, Rat(1, 1000)))),
     rsi_extreme_oversold |-> Flag(FLt(r.rsi, Num(25))),
     rsi_extreme_overbought |-> Flag(FGt(r.rsi, Num(75))),
     rsi_recovery |-> Flag(FGt(r.rsi, Num(30)) /\ FLt(g.rsi_lag1, Num(30))),
     rsi_breakdown |-> Flag(FLt(r.rsi, Num(70)) /\ FGt(g.rsi_lag1, Num(70))),
     volume_spike_2x |-> Flag(FGt(r.volume_ratio, Num(2))),
     volume_spike_3x |-> Flag(FGt(r.volume_ratio, Num(3))),
     volume_with_price_up |->
         Flag(FGt(r.volume_ratio, Rat(3, 2)) /\ FGt(r.returns_1d, Num(0))),
     volume_with_price_down |->
         Flag(FGt(r.volume_ratio, Rat(3, 2)) /\ FLt(r.returns_1d, Num(0))),
     bb_lower_touch |-> Flag(FLt(r.bb_position, Rat(1, 10))),
     bb_upper_touch |-> Flag(FGt(r.bb_position, Rat(9, 10))),
     bb_squeeze_extreme |-> Flag(FLt(r.bb_width, squeeze_level)),
     momentum_divergence |-> Flag(FGt(r.returns_7d, Num(0)) /\ FLt(r.momentum_7d, Num(0))),
     bullish_confluence |->
         Flag(FLt(r.rsi, Num(35)) /\ FLt(r.bb_position, Rat(2, 10))
              /\ FLt(r.returns_7d, Rat(-5, 100))),
     bearish_confluence |->
         Flag(FGt(r.rsi, Num(65)) /\ FGt(r.bb_position, Rat(8, 10))
              /\ FGt(r.returns_7d, Rat(5, 100))),
     momentum_score |->
         FDiv(FAdd(FAdd(Flag(FGt(r.rsi, Num(50))), Flag(FGt(r.macd, Num(0)))),
                   Flag(r.ma_cross_short_medium = Num(1))),
              Num(3)),
     market_position |-> MarketPosition(r.rsi),
     is_oversold |-> Flag(MarketPosition(r.rsi) = "oversold"),
     is_overbought |-> Flag(MarketPosition(r.rsi) = "overbought")]

(* lines 423-434: the quantiles are taken over all the rows of the frame *)
SentimentLevels(frame) ==
    IF Len(frame) > 0 /\ Has(frame[1], "sentiment_mean_7d")
    THEN [mean_high   |-> Quantile(ColumnOf(frame, "sentiment_mean_7d"), 4, 5),
          mean_low    |-> Quantile(ColumnOf(frame, "sentiment_mean_7d"), 1, 5),
          stress_high |-> Quantile(ColumnOf(frame, "stress_index_7d"), 4, 5)]
    ELSE << >>

EngineeredJoin(frame, grouped, relative_mean, squeeze_level, levels) ==
    Col(frame, LAMBDA i :
        frame[i] @@ grouped[i]
        @@ RowEngineered(frame[i], grouped[i], relative_mean[i], squeeze_level[i])
        @@ SentimentEngineered(frame[i], levels) @@ TrendsEngineered(frame[i]))

engineer_additional_features(frame) ==
    EngineeredJoin(frame,
                   Grouped(frame, Ranks(frame), GroupedFeatures),
                   SameDayTypeMean(frame, "returns_7d"),
                   RollingQuantile(ColumnOf(frame, "bb_width"), 20, 1, 5),
                   SentimentLevels(frame))

(* the new columns in the order of their assignments *)
EngineeredColumns(has_sentiment, has_trends) ==
    (IF has_sentiment
     THEN << "sentiment_rsi_interaction", "sentiment_volatility_interaction" >> ELSE << >>)
    \o (IF has_trends
        THEN << "trends_rsi_interaction", "trends_volatility_interaction",
                "trends_momentum_interaction" >>
             \o (IF has_sentiment THEN << "trends_sentiment_combined" >> ELSE << >>)
             \o << "trends_spike" >>
        ELSE << >>)
    \o << "momentum_3d", "momentum_14d", "momentum_21d", "volatility_7d", "volatility_30d",
          "volatility_regime", "price_to_ma7", "price_to_ma30", "rsi_change_3d", "rsi_ma",
          "volume_surge", "volume_trend", "returns_positive", "trend_days_7d",
          "return_7d_relative", "volume_to_volatility", "trend_strength",
          "rsi_extreme_oversold", "rsi_extreme_overbought", "rsi_recovery",
          "rsi_breakdown", "volume_spike_2x", "volume_spike_3x", "volume_with_price_up",
          "volume_with_price_down", "bb_lower_touch", "bb_upper_touch",
          "bb_squeeze_extreme" >>
    \o (IF has_sentiment
        THEN << "sentiment_extreme_positive", "sentiment_extreme_negative",
                "sentiment_stress_high" >>
        ELSE << >>)
    \o << "returns_1d_lag1", "returns_1d_lag2", "returns_1d_lag3", "volatility_lag1",
          "rsi_lag1", "momentum_divergence", "bullish_confluence", "bearish_confluence",
          "momentum_score", "market_position", "is_oversold", "is_overbought" >>

(* DataFrame.fillna(method="ffill") and (method="bfill") on one column *)
KeepLast(prev, v) == IF IsNaN(v) THEN prev ELSE v

Reverse(xs) == Col(xs, LAMBDA i : xs[Len(xs) + 1 - i])

Ffill(xs) == Scan(KeepLast, xs, 1, Len(xs), NaN)

Bfill(xs) == Reverse(Ffill(Reverse(xs)))

IsTarget(col) == col \in Range(TargetColumns(FORWARD_PERIODS))

META_COLS == << "date", "asset", "asset_type" >>

PRICE_COLS == << "open", "high", "low", "close", "volume" >>

(* lines 508-524 *)
IsFeature(col) ==
    /\ col \notin Range(META_COLS) \cup Range(PRICE_COLS) \cup {"market_position"}
    /\ ~IsTarget(col)

HasNaNIn(r, cols) == \E k \in DOMAIN cols : IsNaN(r[cols[k]])

(* DataFrame.dropna(subset=cols) *)
DropNa(frame, cols) == SelectSeq(frame, LAMBDA r : ~HasNaNIn(r, cols))

FilledRows(rows, feature_cols, filled) ==
    Col(rows, LAMBDA i :
        Fields(LAMBDA k : feature_cols[k] :> filled[k][i], 1, Len(feature_cols)) @@ rows[i])

(* lines 527-533, for the rows of one asset *)
FillAsset(rows, feature_cols) ==
    FilledRows(rows, feature_cols,
               Col(feature_cols, LAMBDA k : Bfill(Ffill(ColumnOf(rows, feature_cols[k])))))

FillPerAsset_Ungrouped(frame, feature_cols) == FillAsset(frame, feature_cols)

FillPerAsset(frame, feature_cols) ==
    Grouped(frame, Ranks(frame), LAMBDA rows : FillAsset(rows, feature_cols))

(* lines 543-554 *)
OrderedColumns(cols) ==
    META_COLS \o PRICE_COLS
    \o SelectSeq(cols, LAMBDA c : c \notin Range(META_COLS) \cup Range(PRICE_COLS)
                                  /\ ~IsTarget(c))
    \o SelectSeq(cols, IsTarget)

FinalRows(frame, cols) ==
    SortByAssetDate(
        DropNa(FillPerAsset(DropNa(frame, SelectSeq(cols, IsTarget)),
                            SelectSeq(cols, IsFeature)),
               SelectSeq(cols, IsFeature)))

finalize_dataset(frame, cols) ==
    [rows |-> FinalRows(frame, cols), columns |-> OrderedColumns(cols)]

(***************************************************************************)
(* The price files of a run.  An asset's series has n daily rows, dated    *)
(* 1..n; its close is pat[1] up to row start - 1 and then alternates       *)
(* between pat[2] and pat[1]; its volume is 10, and 40 on the row `spike`. *)
(***************************************************************************)
PriceAt(i, start, pat) == Num(IF i < start \/ (i - start) % 2 = 1 THEN pat[1] ELSE pat[2])

VolumeAt(i, spike) == Num(IF i = spike THEN 40 ELSE 10)

(* a row of prices_crypto.csv *)
CryptoPrice(a, i, c, v) == [date |-> i, asset |-> a, price |-> c, volume |-> v]

(* a row of prices_stocks.csv *)
StockPrice(a, i, c, v) ==
    [date |-> i, asset |-> a, open |-> c, high |-> c, low |-> c, close |-> c, volume |-> v]

CryptoSeries(a, n, start, pat, spike) ==
    Tab(LAMBDA i : CryptoPrice(a, i, PriceAt(i, start, pat), VolumeAt(i, spike)), 1, n)

StockSeries(a, n, start, pat, spike) ==
    Tab(LAMBDA i : StockPrice(a, i, PriceAt(i, start, pat), VolumeAt(i, spike)), 1, n)

Lengths == {MinObs \div 2} \cup ((MinObs - 1)..(MinObs + MaxExtra))

Patterns == (1..MaxPrice) \X (1..MaxPrice)

Starts == {2, 40}

(***************************************************************************)
(* The auxiliary tables stage 5 may find.  market_sentiment.csv has one    *)
(* row per day with events; sentiment_std is NaN on a day with one event   *)
(* and stress_index is 100 times the std, 0 for NaN.  google_trends.csv    *)
(* has one row per (asset, date) with an interest in 0..100.               *)
(***************************************************************************)
None == [exists |-> FALSE, rows |-> << >>]

Table(rows) == [exists |-> TRUE, rows |-> rows]

SentimentDay(d, mean, std) ==
    [date |-> d, sentiment_mean |-> mean, sentiment_std |-> std,
     stress_index |-> FMul(FillNa(std, Num(0)), Num(100))]

TrendsPoint(d, a, interest) == [date |-> d, asset |-> a, interest |-> Num(interest)]

SentimentFiles ==
    << None,
       Table(<< SentimentDay(60, Rat(1, 2), NaN), SentimentDay(61, Rat(-1, 4), Rat(1, 10)),
                SentimentDay(75, Rat(1, 4), Rat(1, 5)) >>),
       Table(<< SentimentDay(MinObs \div 2, Rat(-1, 2), NaN) >>) >>

TrendsFiles ==
    << None,
       Table(<< TrendsPoint(59, 1, 40), TrendsPoint(61, 1, 80), TrendsPoint(70, 2, 30) >>),
       Table(<< TrendsPoint(MinObs \div 2, 2, 100) >>) >>

(* the pairs (sentiment file, trends file) a run may find *)
AuxFiles == {<< 1, 1 >>, << 2, 2 >>, << 3, 1 >>, << 1, 3 >>, << 3, 2 >>}

NoRun == [stage |-> "none", prices_crypto |-> << >>, prices_stocks |-> << >>,
          prices |-> << >>, technical |-> << >>]

(* nothing of the sentiment stage, the disk runs or the spreadsheet *)
OtherScriptsIdle ==
    /\ articles = << >>
    /\ scorer = "none"
    /\ sentiment_df = << >>
    /\ mentions_df = << >>
    /\ disk = "none"
    /\ exit_status = "none"
    /\ spreadsheet = "none"
    /\ positions = << >>
    /\ loaded = << >>

(* the technical indicators alone: rich price files, stage 4 only *)
InitTech ==
    /\ stage = "raw"
    /\ \E n \in Lengths, pat \in Patterns, start \in Starts :
           prices_crypto = CryptoSeries(1, n, start, pat, 0)
    /\ \E n \in {MinObs \div 2, MinObs} :
           prices_stocks = StockSeries(2, n, 20, << 3, 1 >>, 25)
    /\ prices = << >>
    /\ technical = << >>
    /\ market_sentiment = None
    /\ google_trends = None
    /\ df = << >>
    /\ columns = << >>
    /\ run2 = NoRun
    /\ OtherScriptsIdle

(* the two stages in a row *)
Init ==
    /\ stage = "raw"
    /\ \E n \in {MinObs \div 2, MinObs + MaxExtra, LongEnough + MaxExtra},
          p \in 1..MaxPrice, start \in Starts :
           prices_crypto = CryptoSeries(1, n, start, << MaxPrice, p >>, 0)
    /\ prices_stocks = StockSeries(2, LongEnough, 20, << 3, 1 >>, 25)
    /\ prices = << >>
    /\ technical = << >>
    /\ market_sentiment = None
    /\ google_trends = None
    /\ df = << >>
    /\ columns = << >>
    /\ run2 = NoRun
    /\ OtherScriptsIdle

(* main() of stage 4, lines 363-364 *)
LoadPriceData ==
    /\ stage = "raw"
    /\ prices' = load_price_data(prices_crypto, prices_stocks)
    /\ stage' = "loaded"
    /\ UNCHANGED << prices_crypto, prices_stocks, technical, market_sentiment,
                    google_trends, df, columns, run2,
                    other_scripts >>

SaveTechnical(res) ==
    IF res.ok
    THEN technical' = res.rows /\ stage' = "technical"
    ELSE technical' = technical /\ stage' = "failed"

(* main() of stage 4, lines 366-375: technical_features.csv is written     *)
(* only when calculate_technical_features returns.                         *)
CalculateTechnicalFeatures ==
    /\ stage = "loaded"
    /\ SaveTechnical(calculate_technical_features(prices))
    /\ UNCHANGED << prices_crypto, prices_stocks, prices, market_sentiment,
                    google_trends, df, columns, run2,
                    other_scripts >>

(* main() of stage 5, line 638: load_all_data; a file that is not found    *)
(* leaves None                                                             *)
LoadAllData ==
    /\ stage = "technical"
    /\ \E files \in AuxFiles :
           /\ market_sentiment' = SentimentFiles[files[1]]
           /\ google_trends' = TrendsFiles[files[2]]
    /\ df' = technical
    /\ columns' = PRICE_COLUMNS \o TECHNICAL_COLUMNS
    /\ stage' = "data"
    /\ UNCHANGED << prices_crypto, prices_stocks, prices, technical, run2,
                    other_scripts >>

(* main() of stage 5, line 641 *)
CreateTargets ==
    /\ stage = "data"
    /\ df' = create_targets(df, FORWARD_PERIODS)
    /\ columns' = columns \o TargetColumns(FORWARD_PERIODS)
    /\ stage' = "targets"
    /\ UNCHANGED << prices_crypto, prices_stocks, prices, technical, market_sentiment,
                    google_trends, run2,
                    other_scripts >>

(* main() of stage 5, lines 644-646 *)
MergeSentimentFeatures ==
    /\ stage = "targets"
    /\ df' = merge_sentiment_features(df, market_sentiment, SENTIMENT_LAG_DAYS)
    /\ columns' = columns \o (IF market_sentiment.exists THEN SENTIMENT_COLUMNS ELSE << >>)
    /\ stage' = "sentiment"
    /\ UNCHANGED << prices_crypto, prices_stocks, prices, technical, market_sentiment,
                    google_trends, run2,
                    other_scripts >>

(* main() of stage 5, lines 649-651 *)
MergeGoogleTrends ==
    /\ stage = "sentiment"
    /\ df' = merge_google_trends(df, google_trends, SENTIMENT_LAG_DAYS)
    /\ columns' = columns \o (IF google_trends.exists THEN TRENDS_COLUMNS ELSE << >>)
    /\ stage' = "trends"
    /\ UNCHANGED << prices_crypto, prices_stocks, prices, technical, market_sentiment,
                    google_trends, run2,
                    other_scripts >>

(* main() of stage 5, line 654 *)
EngineerAdditionalFeatures ==
    /\ stage = "trends"
    /\ df' = engineer_additional_features(df)
    /\ columns' = columns \o EngineeredColumns(market_sentiment.exists, google_trends.exists)
    /\ stage' = "engineered"
    /\ UNCHANGED << prices_crypto, prices_stocks, prices, technical, market_sentiment,
                    google_trends, run2,
                    other_scripts >>

SetFinal(res) == df' = res.rows /\ columns' = res.columns

(* main() of stage 5, line 657 *)
FinalizeDataset ==
    /\ stage = "engineered"
    /\ SetFinal(finalize_dataset(df, columns))
    /\ stage' = "final"
    /\ UNCHANGED << prices_crypto, prices_stocks, prices, technical, market_sentiment,
                    google_trends, run2,
                    other_scripts >>

(***************************************************************************)
(* create_targets on its own.  Its input is a frame with the columns date, *)
(* asset and close: asset 1 has n rows at close 1000 but for row k, asset  *)
(* 2 follows with eight rows.                                              *)
(***************************************************************************)
TargetCloses == {900, 1015, 1016, 1020, 1021, 1030, 1031}

TargetSeries(a, n, k, p) ==
    Tab(LAMBDA i : [date |-> i, asset |-> a, close |-> Num(IF i = k THEN p ELSE 1000)], 1, n)

InitTargets ==
    /\ stage = "data"
    /\ \E n \in {3, 10, 16, 17}, k \in {1, 2, 4}, p \in TargetCloses :
           df = TargetSeries(1, n, k, p) \o TargetSeries(2, 8, 4, 1016)
    /\ columns = << "date", "asset", "close" >>
    /\ prices_crypto = << >>
    /\ prices_stocks = << >>
    /\ prices = << >>
    /\ technical = << >>
    /\ market_sentiment = None
    /\ google_trends = None
    /\ run2 = NoRun
    /\ OtherScriptsIdle

NextTargets == CreateTargets

SpecTargets == InitTargets /\ [][NextTargets]_vars

(***************************************************************************)
(* Two runs of stage 4.  The second run reads price files that differ from *)
(* the first run's in one place: one crypto close, one crypto row more or  *)
(* less at the end, or one stock close.                                    *)
(***************************************************************************)
WithPrice(rows, k, p) ==
    Col(rows, LAMBDA i : IF i = k THEN [rows[i] EXCEPT !.price = Num(p)] ELSE rows[i])

WithClose(rows, k, p) ==
    Col(rows, LAMBDA i : IF i = k THEN [rows[i] EXCEPT !.close = Num(p)] ELSE rows[i])

Changes ==
    {<< "price", k, p >> : k \in {30, MinObs - 5}, p \in 1..MaxPrice}
    \cup {<< "append", 0, 1 >>, << "remove", 0, 0 >>, << "close", MinObs \div 2, 2 >>}

ChangedCrypto(rows, change) ==
    CASE change[1] = "price" -> WithPrice(rows, change[2], change[3])
      [] change[1] = "append" ->
             Append(rows, CryptoPrice(1, Len(rows) + 1, Num(change[3]), Num(10)))
      [] change[1] = "remove" -> SubSeq(rows, 1, Len(rows) - 1)
      [] OTHER -> rows

ChangedStocks(rows, change) ==
    IF change[1] = "close" THEN WithClose(rows, change[2], change[3]) ELSE rows

SecondRun(crypto, stocks, change) ==
    [stage |-> "raw", prices_crypto |-> ChangedCrypto(crypto, change),
     prices_stocks |-> ChangedStocks(stocks, change), prices |-> << >>,
     technical |-> << >>]

InitCausal ==
    /\ stage = "raw"
    /\ \E n \in {MinObs, MinObs + MaxExtra}, p \in 1..MaxPrice, start \in Starts,
          change \in Changes :
           /\ prices_crypto = CryptoSeries(1, n, start, << MaxPrice, p >>, 0)
           /\ run2 = SecondRun(CryptoSeries(1, n, start, << MaxPrice, p >>, 0),
                               StockSeries(2, MinObs, 20, << 3, 1 >>, 25), change)
    /\ prices_stocks = StockSeries(2, MinObs, 20, << 3, 1 >>, 25)
    /\ prices = << >>
    /\ technical = << >>
    /\ market_sentiment = None
    /\ google_trends = None
    /\ df = << >>
    /\ columns = << >>
    /\ OtherScriptsIdle

(* the steps of main() of stage 4 in the second run, which starts when the *)
(* first run has saved its features                                        *)
Run2LoadPriceData ==
    /\ stage = "technical"
    /\ run2.stage = "raw"
    /\ run2' = [run2 EXCEPT !.prices = load_price_data(run2.prices_crypto,
                                                       run2.prices_stocks),
                            !.stage = "loaded"]
    /\ UNCHANGED << stage, prices_crypto, prices_stocks, prices, technical,
                    market_sentiment, google_trends, df, columns,
                    other_scripts >>

Run2Save(res) ==
    IF res.ok
    THEN run2' = [run2 EXCEPT !.technical = res.rows, !.stage = "technical"]
    ELSE run2' = [run2 EXCEPT !.stage = "failed"]

Run2CalculateTechnicalFeatures ==
    /\ run2.stage = "loaded"
    /\ Run2Save(calculate_technical_features(run2.prices))
    /\ UNCHANGED << stage, prices_crypto, prices_stocks, prices, technical,
                    market_sentiment, google_trends, df, columns,
                    other_scripts >>

NextCausal ==
    \/ LoadPriceData
    \/ CalculateTechnicalFeatures
    \/ Run2LoadPriceData
    \/ Run2CalculateTechnicalFeatures

SpecCausal == InitCausal /\ [][NextCausal]_vars

(***************************************************************************)
(* The constant-price scenario: one asset whose close never moves, an      *)
(* empty stocks file, stages 4 and 5 in a row.                             *)
(***************************************************************************)
ConstantCloses == {1, 100}

ConstantLengths == {MinObs, MinObs + 20, MinObs + 20 + MaxExtra}

InitConstant ==
    /\ stage = "raw"
    /\ \E n \in ConstantLengths, c \in ConstantCloses, spike \in {0, 25} :
           prices_crypto = CryptoSeries(1, n, 2, << c, c >>, spike)
    /\ prices_stocks = << >>
    /\ prices = << >>
    /\ technical = << >>
    /\ market_sentiment = None
    /\ google_trends = None
    /\ df = << >>
    /\ columns = << >>
    /\ run2 = NoRun
    /\ OtherScriptsIdle

NextTech == LoadPriceData \/ CalculateTechnicalFeatures

SpecTech == InitTech /\ [][NextTech]_vars

Next ==
    \/ LoadPriceData
    \/ CalculateTechnicalFeatures
    \/ LoadAllData
    \/ CreateTargets
    \/ MergeSentimentFeatures
    \/ MergeGoogleTrends
    \/ EngineerAdditionalFeatures
    \/ FinalizeDataset

Spec == Init /\ [][Next]_vars

SpecConstant == InitConstant /\ [][Next]_vars

(***************************************************************************)
(* 3_sentiment_analysis.py.  An article of the article file has a date (a  *)
(* time stamp in hours, NaT when the file's value cannot be parsed), a     *)
(* text (the set of the keywords that occur in title and description),     *)
(* and what the external scorer answers on its text: a number of stars     *)
(* 1..5 with a confidence, or 0 when the scorer raises.  A frame of this   *)
(* stage carries the pandas index label of each row.                       *)
(***************************************************************************)
POSITIVE_KEYWORDS ==
    {"hausse", "progression", "rebond", "optimisme", "croissance", "record", "succès",
     "performance", "dynamique", "confiance"}

NEGATIVE_KEYWORDS ==
    {"baisse", "chute", "recul", "inquiétude", "crise", "correction", "volatilité",
     "incertitude", "panique", "ralentissement"}

NaT == -1

(* Series.dt.date of a time stamp *)
CalendarDate(ts) == ts \div 24

(* a frame read from a file has the index labels 0, 1, 2, ... *)
RangeIndex(rows) == Col(rows, LAMBDA i : [index |-> i - 1] @@ rows[i])

(* lines 120-121: the rows whose date cannot be parsed are dropped, the    *)
(* rows that stay keep their index labels                                  *)
DropNaT(frame) == SelectSeq(frame, LAMBDA r : r.date # NaT)

load_agefi_articles(file) ==
    IF file.exists
    THEN [ok |-> TRUE, rows |-> DropNaT(RangeIndex(file.rows))]
    ELSE [ok |-> FALSE, rows |-> << >>]

KeywordScore(positive_count, negative_count) ==
    IF positive_count + negative_count = 0 THEN Num(0)
    ELSE Rat(positive_count - negative_count, positive_count + negative_count)

analyze_sentiment_simple(text) ==
    KeywordScore(Cardinality(text \cap POSITIVE_KEYWORDS),
                 Cardinality(text \cap NEGATIVE_KEYWORDS))

SentimentLabel_AtLeast(score) ==
    IF ~FLt(score, Rat(2, 10)) /\ ~IsNaN(score) THEN "positive"
    ELSE IF FLt(score, Rat(-2, 10)) THEN "negative" ELSE "neutral"

(* "positive" if score > 0.2 else "negative" if score < -0.2 else "neutral" *)
SentimentLabel(score) ==
    IF FGt(score, Rat(2, 10)) THEN "positive"
    ELSE IF FLt(score, Rat(-2, 10)) THEN "negative" ELSE "neutral"

SentimentRecord(score, confidence) ==
    [sentiment_score |-> score, sentiment_label |-> SentimentLabel(score),
     confidence |-> confidence]

(* lines 199-200: stars 1..5 to a score -1..1 *)
StarsScore(stars) == Rat(stars - 3, 2)

ScorerRaises(row) == row.stars = 0

(* lines 193-221: the body of the loop over the texts *)
TransformerRecord(row) ==
    IF ScorerRaises(row)
    THEN SentimentRecord(analyze_sentiment_simple(row.text), Rat(1, 2))
    ELSE SentimentRecord(StarsScore(row.stars), row.confidence)

(* lines 233-245 *)
KeywordRecord(row) == SentimentRecord(analyze_sentiment_simple(row.text), Rat(6, 10))

analyze_sentiment_transformer_NoIsolation(frame, use_transformer, loads) ==
    RangeIndex(
        IF use_transformer /\ loads /\ \A i \in DOMAIN frame : ~ScorerRaises(frame[i])
        THEN Col(frame, LAMBDA i : TransformerRecord(frame[i]))
        ELSE Col(frame, LAMBDA i : KeywordRecord(frame[i])))

(* lines 154-246: the model that does not load makes the whole batch fall  *)
(* back on the keywords; the result is a new frame, labelled 0, 1, 2, ...  *)
analyze_sentiment_transformer(frame, use_transformer, loads) ==
    RangeIndex(
        IF use_transformer /\ loads
        THEN Col(frame, LAMBDA i : TransformerRecord(frame[i]))
        ELSE Col(frame, LAMBDA i : KeywordRecord(frame[i])))

(* line 169: analyze_sentiment_transformer adds the column full_text to    *)
(* the frame it was handed, not to a copy                                  *)
WithFullText(frame) == Col(frame, LAMBDA i : [full_text |-> frame[i].text] @@ frame[i])

(* lines 30-41 *)
ASSETS ==
    ("BTC" :> {"bitcoin", "btc", "crypto", "cryptomonnaie"})
    @@ ("ETH" :> {"ethereum", "eth", "ether"})
    @@ ("MC.PA" :> {"lvmh", "louis vuitton", "luxe"})
    @@ ("RMS.PA" :> {"hermès", "hermes"})
    @@ ("TTE.PA" :> {"totalenergies", "total", "énergie", "pétrole"})
    @@ ("ENGI.PA" :> {"engie", "gaz", "électricité"})
    @@ ("BNP.PA" :> {"bnp", "bnp paribas", "banque"})
    @@ ("GLE.PA" :> {"société générale", "socgen", "societe generale"})
    @@ ("CAP.PA" :> {"capgemini", "tech", "technologie"})
    @@ ("SU.PA" :> {"schneider", "schneider electric", "industrie"})

(* lines 271-274: int(any(kw in text for kw in keywords)), for every asset *)
MentionsOf(text) == [asset \in DOMAIN ASSETS |-> IF text \cap ASSETS[asset] # {} THEN 1 ELSE 0]

(* df["full_text"] raises KeyError on a frame without that column *)
HasFullText(frame) == \A i \in DOMAIN frame : Has(frame[i], "full_text")

(* lines 258-287: the column full_text_lower is added to the frame handed  *)
(* in; the result has one row per row of the frame, under the same label   *)
detect_asset_mentions(frame) ==
    IF HasFullText(frame)
    THEN [ok |-> TRUE,
          frame |-> Col(frame, LAMBDA i : [full_text_lower |-> frame[i].full_text]
                                          @@ frame[i]),
          mentions |-> Col(frame, LAMBDA i : [index |-> frame[i].index,
                                              mentions |-> MentionsOf(frame[i].full_text)])]
    ELSE [ok |-> FALSE, frame |-> frame, mentions |-> << >>]

(* pd.concat([df, sentiment_df], axis=1): the rows of the two frames are   *)
(* joined on their index labels; a label one frame lacks leaves that       *)
(* frame's columns missing.                                                *)
NoSentiment == [sentiment_score |-> NaN, sentiment_label |-> "nan", confidence |-> NaN]

LabelledRows(frame, label) == SelectSeq(frame, LAMBDA r : r.index = label)

SentimentAt(sentiment, label) ==
    IF Len(LabelledRows(sentiment, label)) > 0
    THEN LabelledRows(sentiment, label)[1] ELSE NoSentiment

JoinOnIndex(frame, sentiment) ==
    Col(frame, LAMBDA i : frame[i] @@ SentimentAt(sentiment, frame[i].index))
    \o Col(SelectSeq(sentiment, LAMBDA r : Len(LabelledRows(frame, r.index)) = 0),
           LAMBDA i : [date |-> NaT])

ScoreOf(rows) == Col(rows, LAMBDA i : rows[i].sentiment_score)

CountLabel(rows, label) == Cardinality({i \in DOMAIN rows : rows[i].sentiment_label = label})

StressIndex_NoFill(sentiment_std) == FMul(sentiment_std, Num(100))

(* lines 330-331 *)
StressIndex(sentiment_std) == FMul(FillNa(sentiment_std, Num(0)), Num(100))

DailyFrom(d, rows, scores, std) ==
    [date |-> d,
     sentiment_mean |-> SeriesMean(scores),
     sentiment_std |-> std,
     sentiment_min |-> SeriesMin(scores),
     sentiment_max |-> SeriesMax(scores),
     sentiment_balance |-> Num(CountLabel(rows, "positive") - CountLabel(rows, "negative")),
     stress_index |-> StressIndex(std)]

DailyOf(d, rows) == DailyFrom(d, rows, ScoreOf(rows), SeriesStd(ScoreOf(rows)))

(* groupby(date.dt.date): the rows of one calendar date; NaT is no group *)
EventsOn(joined, d) ==
    SelectSeq(joined, LAMBDA r : r.date # NaT /\ CalendarDate(r.date) = d)

LastOf(days) == IF days = {} THEN -1 ELSE CHOOSE d \in days : \A e \in days : e <= d

LastDay(joined) ==
    LastOf({CalendarDate(joined[i].date) : i \in {j \in DOMAIN joined : joined[j].date # NaT}})

DailyRows(joined, last) ==
    Concat(Tab(LAMBDA d : IF Len(EventsOn(joined, d)) > 0
                          THEN << DailyOf(d, EventsOn(joined, d)) >> ELSE << >>,
               0, last),
           1, last + 1)

DailySentiment(joined) == DailyRows(joined, LastDay(joined))

(* lines 295-336 *)
calculate_market_sentiment(frame, sentiment) == DailySentiment(JoinOnIndex(frame, sentiment))

(***************************************************************************)
(* The article files of the sentiment stage: up to MaxArticles articles    *)
(* out of a few kinds.  Two kinds fall on the same day, one has a date     *)
(* that cannot be parsed, one makes the external scorer raise, and the     *)
(* keywords of two give the scores 0.2 and -0.2.                           *)
(***************************************************************************)
MaxArticles == 3

Article(date, text, stars) ==
    [date |-> date, text |-> text, stars |-> stars, confidence |-> Rat(9, 10)]

ArticleKinds ==
    << Article(24 + 9, {"hausse", "bitcoin"}, 5),
       Article(24 + 15, {"baisse", "crise", "lvmh", "luxe"}, 1),
       Article(48 + 10, {"hausse", "rebond", "record", "baisse", "crise"}, 0),
       Article(NaT, {}, 3),
       Article(48, {"hausse", "rebond", "baisse", "crise", "chute"}, 4) >>

ArticleFiles ==
    UNION {[1..n -> Range(ArticleKinds)] : n \in 1..MaxArticles}

Scorers == [use_transformer : BOOLEAN, loads : BOOLEAN]

InitSentiment ==
    /\ stage = "articles"
    /\ articles \in {Table(rows) : rows \in ArticleFiles}
    /\ scorer \in Scorers
    /\ sentiment_df = << >>
    /\ mentions_df = << >>
    /\ df = << >>
    /\ columns = << >>
    /\ market_sentiment = None
    /\ google_trends = None
    /\ prices_crypto = << >>
    /\ prices_stocks = << >>
    /\ prices = << >>
    /\ technical = << >>
    /\ run2 = NoRun
    /\ disk = "none"
    /\ exit_status = "none"
    /\ spreadsheet = "none"
    /\ positions = << >>
    /\ loaded = << >>

(* main() of stage 3, line 359 *)
LoadAgefiArticles ==
    /\ stage = "articles"
    /\ df' = load_agefi_articles(articles).rows
    /\ stage' = "loaded_articles"
    /\ UNCHANGED << prices_crypto, prices_stocks, prices, technical, market_sentiment,
                    google_trends, columns, run2, articles, scorer, sentiment_df,
                    mentions_df, disk, exit_status, spreadsheet, positions, loaded >>

(* main() of stage 3, line 362 *)
AnalyzeSentiment ==
    /\ stage = "loaded_articles"
    /\ sentiment_df' = analyze_sentiment_transformer(df, scorer.use_transformer, scorer.loads)
    /\ df' = WithFullText(df)
    /\ stage' = "scored"
    /\ UNCHANGED << prices_crypto, prices_stocks, prices, technical, market_sentiment,
                    google_trends, columns, run2, articles, scorer, mentions_df, disk,
                    exit_status, spreadsheet, positions, loaded >>

(* main() of stage 3, line 365 *)
DetectAssetMentions ==
    /\ stage = "scored"
    /\ detect_asset_mentions(df).ok
    /\ mentions_df' = detect_asset_mentions(df).mentions
    /\ df' = detect_asset_mentions(df).frame
    /\ stage' = "mentions"
    /\ UNCHANGED << prices_crypto, prices_stocks, prices, technical, market_sentiment,
                    google_trends, columns, run2, articles, scorer, sentiment_df, disk,
                    exit_status, spreadsheet, positions, loaded >>

(* main() of stage 3, line 378 *)
CalculateMarketSentiment ==
    /\ stage = "mentions"
    /\ market_sentiment' = Table(calculate_market_sentiment(df, sentiment_df))
    /\ stage' = "aggregated"
    /\ UNCHANGED << prices_crypto, prices_stocks, prices, technical, google_trends, df,
                    columns, run2, articles, scorer, sentiment_df, mentions_df, disk,
                    exit_status, spreadsheet, positions, loaded >>

NextSentiment ==
    LoadAgefiArticles \/ AnalyzeSentiment \/ DetectAssetMentions \/ CalculateMarketSentiment

SpecSentiment == InitSentiment /\ [][NextSentiment]_vars

(***************************************************************************)
(* The three main() functions on the data directory.  A file of the disk   *)
(* is None or a table; a main() that raises leaves the exit code 1, one    *)
(* that returns leaves 0.  Each script is run once, in the order of the    *)
(* pipeline, whatever became of the one before.                            *)
(***************************************************************************)
NoFiles ==
    [articles |-> None, prices_crypto |-> None, prices_stocks |-> None,
     google_trends |-> None, sentiment_scores |-> None, market_sentiment |-> None,
     technical_features |-> None, technical_aggregates |-> None,
     features_final |-> None, features_sample |-> None]

NotRun == [script |-> 0, code |-> 0]

(* an exception leaves main(): nothing was written *)
Aborted(d) == [disk |-> d, code |-> 1]

Completed(d) == [disk |-> d, code |-> 0]

(* pd.concat([df[[...]], sentiment_df, mentions_df], axis=1), lines 368-375: *)
(* the mentions carry the labels of df, the scores the labels 0, 1, 2, ...  *)
FinalFrame(frame, sentiment, mentions) ==
    JoinOnIndex(Col(frame, LAMBDA i : [mentions |-> mentions[i].mentions] @@ frame[i]),
                sentiment)

(* 3_sentiment_analysis.py, main(), lines 368-386: the two to_csv *)
Save3(d, frame, sentiment, mentions) ==
    Completed([d EXCEPT !.sentiment_scores = Table(FinalFrame(frame, sentiment, mentions)),
                        !.market_sentiment =
                            Table(calculate_market_sentiment(frame, sentiment))])

(* 3_sentiment_analysis.py, main(), lines 344-411: load_agefi_articles     *)
(* raises FileNotFoundError when there is no article file                  *)
main_3(d, use_transformer, loads) ==
    IF load_agefi_articles(d.articles).ok
    THEN Save3(d, load_agefi_articles(d.articles).rows,
               analyze_sentiment_transformer(load_agefi_articles(d.articles).rows,
                                             use_transformer, loads),
               detect_asset_mentions(
                   WithFullText(load_agefi_articles(d.articles).rows)).mentions)
    ELSE Aborted(d)

TypeOn(frame, asset_type, date) ==
    SelectSeq(frame, LAMBDA r : r.asset_type = asset_type /\ r.date = date)

PositiveReturns(rows) ==
    Num(Cardinality({i \in DOMAIN rows : FGt(rows[i].returns_1d, Num(0))}))

(* Series.mean() of the rows of one asset type on one date: NaN when there *)
(* is no such row                                                          *)
TypeMean(rows, name) ==
    IF Len(rows) = 0 THEN NaN ELSE SeriesMean(ColumnOf(rows, name))

AggregateFrom(date, date_crypto, date_stocks) ==
    [date |-> date,
     crypto_avg_rsi |-> TypeMean(date_crypto, "rsi"),
     crypto_avg_returns_1d |-> TypeMean(date_crypto, "returns_1d"),
     crypto_avg_volatility |-> TypeMean(date_crypto, "volatility"),
     stocks_avg_rsi |-> TypeMean(date_stocks, "rsi"),
     stocks_avg_returns_1d |-> TypeMean(date_stocks, "returns_1d"),
     stocks_avg_volatility |-> TypeMean(date_stocks, "volatility"),
     crypto_positive_returns |-> PositiveReturns(date_crypto),
     stocks_positive_returns |-> PositiveReturns(date_stocks)]

AggregatesOn(frame, dates) ==
    Col(dates, LAMBDA k : AggregateFrom(dates[k], TypeOn(frame, "crypto", dates[k]),
                                        TypeOn(frame, "stock", dates[k])))

(* one row per date of the frame, in order of first appearance *)
create_aggregate_features(frame) ==
    AggregatesOn(frame, Unique(ColumnOf(frame, "date")))

(* 4_technical_indicators.py, main(), lines 367-378: the concat of line    *)
(* 294 raises before anything is saved                                     *)
Save4(d, res) ==
    IF res.ok
    THEN Completed([d EXCEPT !.technical_features = Table(res.rows),
                             !.technical_aggregates =
                                 Table(create_aggregate_features(res.rows))])
    ELSE Aborted(d)

main_4_StocksOptional(d) ==
    IF d.prices_crypto.exists
    THEN Save4(d, calculate_technical_features(
                      load_price_data(d.prices_crypto.rows, d.prices_stocks.rows)))
    ELSE Aborted(d)

(* 4_technical_indicators.py, main(), lines 357-404: load_price_data       *)
(* raises FileNotFoundError when either price file is not there            *)
main_4(d) ==
    IF d.prices_crypto.exists /\ d.prices_stocks.exists
    THEN Save4(d, calculate_technical_features(
                      load_price_data(d.prices_crypto.rows, d.prices_stocks.rows)))
    ELSE Aborted(d)

Columns5(has_sentiment, has_trends) ==
    PRICE_COLUMNS \o TECHNICAL_COLUMNS \o TargetColumns(FORWARD_PERIODS)
    \o (IF has_sentiment THEN SENTIMENT_COLUMNS ELSE << >>)
    \o (IF has_trends THEN TRENDS_COLUMNS ELSE << >>)
    \o EngineeredColumns(has_sentiment, has_trends)

(* 5_feature_engineering.py, main(), lines 641-657 *)
Pipeline5(df_technical, df_market_sentiment, df_trends) ==
    finalize_dataset(
        engineer_additional_features(
            merge_google_trends(
                merge_sentiment_features(create_targets(df_technical, FORWARD_PERIODS),
                                         df_market_sentiment, SENTIMENT_LAG_DAYS),
                df_trends, SENTIMENT_LAG_DAYS)),
        Columns5(df_market_sentiment.exists, df_trends.exists))

SampleRows == 100

(* df.head(100) *)
HeadRows(rows, n) == SubSeq(rows, 1, IF Len(rows) < n THEN Len(rows) ELSE n)

(* 5_feature_engineering.py, main(), lines 660-669 *)
Save5(d, res) ==
    Completed([d EXCEPT !.features_final = Table(res.rows),
                        !.features_sample = Table(HeadRows(res.rows, SampleRows))])

(* 5_feature_engineering.py, main(), lines 631-676: load_all_data raises   *)
(* FileNotFoundError when technical_features.csv is not there; the         *)
(* sentiment and trends tables are optional                                *)
main_5(d) ==
    IF d.technical_features.exists
    THEN Save5(d, Pipeline5(d.technical_features.rows, d.market_sentiment, d.google_trends))
    ELSE Aborted(d)

(* what the disk runs leave alone *)
not_on_disk == << prices_crypto, prices_stocks, prices, technical, market_sentiment,
                  google_trends, df, columns, run2, articles, scorer, sentiment_df,
                  mentions_df, spreadsheet, positions, loaded >>

ArticlesOnDisk ==
    {None} \cup {Table(SubSeq(ArticleKinds, 1, n)) : n \in {1, MaxArticles}}

CryptoOnDisk ==
    {None} \cup {Table(CryptoSeries(1, n, 2, << MaxPrice, 1 >>, 0)) :
                     n \in {MinObs \div 2, LongEnough + MaxExtra}}

StocksOnDisk == {None, Table(StockSeries(2, LongEnough, 20, << 3, 1 >>, 25))}

InitMain ==
    /\ stage = "run3"
    /\ \E a \in ArticlesOnDisk, c \in CryptoOnDisk, s \in StocksOnDisk,
          t \in Range(TrendsFiles) :
           disk = [NoFiles EXCEPT !.articles = a, !.prices_crypto = c,
                                  !.prices_stocks = s, !.google_trends = t]
    /\ exit_status = NotRun
    /\ scorer \in {sc \in Scorers : sc.use_transformer = sc.loads}
    /\ articles = << >>
    /\ sentiment_df = << >>
    /\ mentions_df = << >>
    /\ df = << >>
    /\ columns = << >>
    /\ market_sentiment = None
    /\ google_trends = None
    /\ prices_crypto = << >>
    /\ prices_stocks = << >>
    /\ prices = << >>
    /\ technical = << >>
    /\ run2 = NoRun
    /\ spreadsheet = "none"
    /\ positions = << >>
    /\ loaded = << >>

Exit(res, script) ==
    /\ disk' = res.disk
    /\ exit_status' = [script |-> script, code |-> res.code]

Main3 ==
    /\ stage = "run3"
    /\ Exit(main_3(disk, scorer.use_transformer, scorer.loads), 3)
    /\ stage' = "run4"
    /\ UNCHANGED not_on_disk

Main4 ==
    /\ stage = "run4"
    /\ Exit(main_4(disk), 4)
    /\ stage' = "run5"
    /\ UNCHANGED not_on_disk

Main5 ==
    /\ stage = "run5"
    /\ Exit(main_5(disk), 5)
    /\ stage' = "ran"
    /\ UNCHANGED not_on_disk

NextMain == Main3 \/ Main4 \/ Main5

SpecMain == InitMain /\ [][NextMain]_vars

(***************************************************************************)
(* google_sheets_client.py: the worksheet "open_positions".  A worksheet   *)
(* is None (not found) or a table of rows of cells, the header first.  A   *)
(* cell holds a text or a number; a Python number is an int or a float of  *)
(* a rational value, and a dict is the sequence of its items in insertion  *)
(* order.  A timestamp is a day and an hour, a date has hour 0.            *)
(***************************************************************************)
PyInt(n) == [type |-> "int", value |-> Num(n)]

PyFloat(v) == [type |-> "float", value |-> v]

(* float(x) *)
ToFloat(x) == PyFloat(x.value)

(* == on two Python numbers *)
PyEq(x, y) == x.value = y.value

Text(t) == [kind |-> "text", text |-> t]

Number(x) == [kind |-> "number", value |-> x.value]

(* str() of a date or datetime, as a cell *)
StampText(ts) == [kind |-> "stamp", day |-> ts.day, hour |-> ts.hour]

Blank == Text("")

OPEN_POSITIONS_HEADERS == << "asset", "quantity", "entry_price", "current_price", "entry_date" >>

HeaderRow == Col(OPEN_POSITIONS_HEADERS, LAMBDA k : Text(OPEN_POSITIONS_HEADERS[k]))

ItemsOf(dict, key) == SelectSeq(dict, LAMBDA item : item.key = key)

(* dict.get(key, default) *)
DictGet(dict, key, default) ==
    IF Len(ItemsOf(dict, key)) > 0 THEN ItemsOf(dict, key)[1].value ELSE default

(* lines 255-262: the current price is the entry price when no price is    *)
(* given for the asset, or no prices at all                                *)
CurrentPrice(asset, data, current_prices) ==
    IF Len(current_prices) > 0
    THEN DictGet(current_prices, asset, data.entry_price)
    ELSE data.entry_price

(* lines 251-266 *)
PositionRow(item, current_prices) ==
    << Text(item.key),
       Number(ToFloat(item.value.quantity)),
       Number(ToFloat(item.value.entry_price)),
       Number(ToFloat(CurrentPrice(item.key, item.value, current_prices))),
       StampText(item.value.entry_date) >>

(* save_open_positions, lines 239-275: the worksheet is found or created,  *)
(* cleared, and gets the header and one row per position                   *)
save_open_positions(positions_dict, current_prices) ==
    Table(<< HeaderRow >>
          \o Col(positions_dict, LAMBDA k : PositionRow(positions_dict[k], current_prices)))

IndexOfHeader(header, name) == CHOOSE k \in DOMAIN header : header[k].text = name

(* Worksheet.get_all_records: one dict per row under the header row, keyed *)
(* by the header cells; a number comes back as an int when it is whole     *)
Numericise(cell) ==
    IF cell.kind = "number"
    THEN [kind |-> "number",
          number |-> IF cell.value.d = 1 THEN [type |-> "int", value |-> cell.value]
                     ELSE PyFloat(cell.value)]
    ELSE cell

RecordOf(header, row) ==
    [name \in Range(OPEN_POSITIONS_HEADERS) |->
        Numericise(row[IndexOfHeader(header, name)])]

get_all_records(values) ==
    IF Len(values) = 0 THEN << >>
    ELSE Col(Tail(values), LAMBDA i : RecordOf(values[1], values[i + 1]))

(* if row["asset"] *)
Truthy(cell) == ~(cell.kind = "text" /\ cell.text = "")

(* float() of a cell that is no number, to_datetime of one that is no      *)
(* timestamp: an exception                                                 *)
RowRaises(row) ==
    \/ row.quantity.kind # "number"
    \/ row.entry_price.kind # "number"
    \/ row.entry_date.kind # "stamp"

(* lines 292-296: the dict of one position *)
PositionOf(row) ==
    [quantity |-> ToFloat(row.quantity.number),
     entry_price |-> ToFloat(row.entry_price.number),
     entry_date |-> [day |-> row.entry_date.day, hour |-> 0]]

(* positions[key] = value *)
DictSet(dict, item) ==
    IF Len(ItemsOf(dict, item.key)) > 0
    THEN Col(dict, LAMBDA k : IF dict[k].key = item.key THEN item ELSE dict[k])
    ELSE Append(dict, item)

SetPosition(dict, row) == DictSet(dict, [key |-> row.asset.text, value |-> PositionOf(row)])

PositionsFrom(data) ==
    IF Len(data) = 0 THEN << >> ELSE Last(Scan(SetPosition, data, 1, Len(data), << >>))

(* lines 283-297 *)
PositionsOfRecords(data) ==
    IF \E i \in DOMAIN data : RowRaises(data[i])
    THEN << >>
    ELSE PositionsFrom(data)

(* get_open_positions, lines 277-300: any exception, the one of a          *)
(* worksheet that is not found included, gives the empty dict              *)
get_open_positions(worksheet, api_fails) ==
    IF api_fails \/ ~worksheet.exists
    THEN << >>
    ELSE PositionsOfRecords(SelectSeq(get_all_records(worksheet.rows),
                                      LAMBDA row : Truthy(row.asset)))

MaxPositions == 2

SheetAssets == << "BTC", "ETH", "AAPL" >>

Quantities == {PyInt(2), PyFloat(Rat(3, 2))}

PositionData(asset, quantity) ==
    [key |-> asset,
     value |-> [quantity |-> quantity,
                entry_price |-> IF asset = "AAPL" THEN PyInt(250) ELSE PyFloat(Rat(201, 2)),
                entry_date |-> IF quantity.type = "int" THEN [day |-> 10, hour |-> 0]
                               ELSE [day |-> 11, hour |-> 14]]]

PositionItems == {PositionData(a, q) : a \in Range(SheetAssets), q \in Quantities}

Distinct(dict) == \A i, j \in DOMAIN dict : dict[i].key = dict[j].key => i = j

PositionDicts ==
    {dict \in UNION {[1..n -> PositionItems] : n \in 0..MaxPositions} : Distinct(dict)}

PriceDicts == {<< >>, << [key |-> "BTC", value |-> PyInt(120)] >>}

BlankRow == << Blank, Blank, Blank, Blank, Blank >>

(* what the spreadsheet holds before the first call: no worksheet, a       *)
(* worksheet left by an earlier run with an empty row, one with a row      *)
(* whose quantity is empty                                                 *)
Worksheets ==
    {None,
     Table(<< HeaderRow, PositionRow(PositionData("ETH", PyInt(2)), << >>), BlankRow >>),
     Table(<< HeaderRow, << Text("ETH"), Blank, Blank, Blank, Blank >> >>)}

NothingSaved == [saved |-> FALSE, dict |-> << >>, prices |-> << >>]

NothingRead == [read |-> FALSE, failed |-> FALSE, dict |-> << >>]

InitSheets ==
    /\ stage = "sheet"
    /\ spreadsheet \in Worksheets
    /\ positions = NothingSaved
    /\ loaded = NothingRead
    /\ articles = << >>
    /\ scorer = "none"
    /\ sentiment_df = << >>
    /\ mentions_df = << >>
    /\ disk = "none"
    /\ exit_status = "none"
    /\ df = << >>
    /\ columns = << >>
    /\ market_sentiment = None
    /\ google_trends = None
    /\ prices_crypto = << >>
    /\ prices_stocks = << >>
    /\ prices = << >>
    /\ technical = << >>
    /\ run2 = NoRun

not_in_sheets == << prices_crypto, prices_stocks, prices, technical, market_sentiment,
                    google_trends, df, columns, run2, articles, scorer, sentiment_df,
                    mentions_df, disk, exit_status >>

SaveOpenPositions ==
    /\ \E positions_dict \in PositionDicts, current_prices \in PriceDicts :
           /\ spreadsheet' = save_open_positions(positions_dict, current_prices)
           /\ positions' = [saved |-> TRUE, dict |-> positions_dict,
                            prices |-> current_prices]
    /\ loaded' = NothingRead
    /\ stage' = "saved"
    /\ UNCHANGED not_in_sheets

GetOpenPositions ==
    /\ \E api_fails \in BOOLEAN :
           loaded' = [read |-> TRUE, failed |-> api_fails \/ ~spreadsheet.exists,
                      dict |-> get_open_positions(spreadsheet, api_fails)]
    /\ stage' = "read"
    /\ UNCHANGED << spreadsheet, positions >>
    /\ UNCHANGED not_in_sheets

NextSheets == SaveOpenPositions \/ GetOpenPositions

SpecSheets == InitSheets /\ [][NextSheets]_vars

(***************************************************************************)
(* Two data directories.  The second holds the files of the first with one *)
(* change dated after the day `day`: a crypto price, more days of market   *)
(* sentiment, or one more search-interest point.  Stages 4 and 5 run on    *)
(* the first directory and then on the second.                             *)
(***************************************************************************)
LaterSentiment ==
    << SentimentDay(82, Num(1), NaN), SentimentDay(89, Num(1), NaN),
       SentimentDay(96, Num(1), NaN) >>

LaterChanges ==
    {<< "price", k, p >> : k \in {10, 60}, p \in 1..MaxPrice}
    \cup {<< "sentiment", 82, 0 >>, << "trends", 95, 100 >>}

ChangedSentiment(rows, change) ==
    IF change[1] = "sentiment" THEN rows \o LaterSentiment ELSE rows

ChangedTrends(rows, change) ==
    IF change[1] = "trends"
    THEN Append(rows, TrendsPoint(change[2], 1, change[3])) ELSE rows

ChangedDirectory(d, change) ==
    [stage |-> "rerun4",
     day |-> change[2] - 1,
     code |-> 0,
     disk |-> [d EXCEPT !.prices_crypto = Table(ChangedCrypto(d.prices_crypto.rows, change)),
                        !.market_sentiment =
                            Table(ChangedSentiment(d.market_sentiment.rows, change)),
                        !.google_trends =
                            Table(ChangedTrends(d.google_trends.rows, change))]]

FirstDirectory(p, start) ==
    [NoFiles EXCEPT
        !.prices_crypto =
            Table(CryptoSeries(1, LongEnough + MaxExtra, start, << MaxPrice, p >>, 0)),
        !.prices_stocks = Table(StockSeries(2, LongEnough, 20, << 3, 1 >>, 25)),
        !.market_sentiment = SentimentFiles[2],
        !.google_trends = TrendsFiles[2]]

InitLookAhead ==
    /\ stage = "run4"
    /\ \E p \in 1..MaxPrice, start \in Starts, change \in LaterChanges :
           /\ disk = FirstDirectory(p, start)
           /\ run2 = ChangedDirectory(FirstDirectory(p, start), change)
    /\ exit_status = NotRun
    /\ scorer = "none"
    /\ articles = << >>
    /\ sentiment_df = << >>
    /\ mentions_df = << >>
    /\ df = << >>
    /\ columns = << >>
    /\ market_sentiment = None
    /\ google_trends = None
    /\ prices_crypto = << >>
    /\ prices_stocks = << >>
    /\ prices = << >>
    /\ technical = << >>
    /\ spreadsheet = "none"
    /\ positions = << >>
    /\ loaded = << >>

Rerun(res, next) ==
    run2' = [run2 EXCEPT !.disk = res.disk, !.code = res.code, !.stage = next]

not_rerun == << stage, prices_crypto, prices_stocks, prices, technical, market_sentiment,
                google_trends, df, columns, other_scripts >>

Rerun4 ==
    /\ stage = "ran"
    /\ run2.stage = "rerun4"
    /\ Rerun(main_4(run2.disk), "rerun5")
    /\ UNCHANGED not_rerun

Rerun5 ==
    /\ stage = "ran"
    /\ run2.stage = "rerun5"
    /\ Rerun(main_5(run2.disk), "reran")
    /\ UNCHANGED not_rerun

NextLookAhead == Main4 \/ Main5 \/ Rerun4 \/ Rerun5

SpecLookAhead == InitLookAhead /\ [][NextLookAhead]_vars

(***************************************************************************)
(* finalize_dataset on its own.  Its input is a small frame whose columns  *)
(* stand in the order in which earlier steps made them: the columns of the *)
(* price file in one of a few orders, then two features, market_position   *)
(* and two targets in any order.                                           *)
(***************************************************************************)
BaseOrders ==
    {PRICE_COLUMNS,
     << "asset", "date", "asset_type", "open", "high", "low", "close", "volume" >>,
     << "date", "asset", "open", "high", "low", "close", "volume", "asset_type" >>}

AppendedColumns ==
    {"rsi", "sentiment_mean_7d", "market_position", "target_return_3d",
     "target_direction_3d"}

AppendOrders ==
    {order \in [1..Cardinality(AppendedColumns) -> AppendedColumns] :
        Range(order) = AppendedColumns}

SmallRow(a, d, rsi) ==
    [date |-> d, asset |-> a, asset_type |-> IF a = 1 THEN "crypto" ELSE "stock",
     open |-> Num(d), high |-> Num(d), low |-> Num(d), close |-> Num(d),
     volume |-> Num(10), rsi |-> rsi, sentiment_mean_7d |-> Num(0),
     market_position |-> MarketPosition(rsi),
     target_return_3d |-> IF d = 3 THEN NaN ELSE Num(0),
     target_direction_3d |-> IF d = 3 THEN NaN ELSE Num(0)]

SmallFrame ==
    << SmallRow(1, 1, NaN), SmallRow(1, 2, Num(50)), SmallRow(1, 3, Num(80)),
       SmallRow(2, 1, Num(20)), SmallRow(2, 2, NaN), SmallRow(2, 3, Num(40)) >>

InitColumns ==
    /\ stage = "engineered"
    /\ df = SmallFrame
    /\ \E base \in BaseOrders, order \in AppendOrders : columns = base \o order
    /\ prices_crypto = << >>
    /\ prices_stocks = << >>
    /\ prices = << >>
    /\ technical = << >>
    /\ market_sentiment = None
    /\ google_trends = None
    /\ run2 = NoRun
    /\ OtherScriptsIdle

SpecColumns == InitColumns /\ [][FinalizeDataset]_vars

(***************************************************************************)
(* The two merges on their own.  The technical frame has two assets on a   *)
(* few days; the auxiliary tables hold some of three rows each, in any     *)
(* row order.                                                              *)
(***************************************************************************)
WindowDays == 58..72

WindowFrame ==
    Concat(Col(<< 1, 2 >>, LAMBDA a :
               Col(Tab(LAMBDA d : d, 58, 72), LAMBDA k : SmallRow(a, 57 + k, Num(50)))),
           1, 2)

SentimentPoints ==
    {SentimentDay(60, Rat(1, 2), NaN), SentimentDay(61, Rat(-1, 4), Rat(1, 10)),
     SentimentDay(63, Rat(1, 4), Rat(1, 5))}

TrendsPoints == {TrendsPoint(59, 1, 40), TrendsPoint(61, 1, 80), TrendsPoint(61, 2, 30)}

(* the tables with some of the points, in every row order *)
Orderings(points) ==
    UNION {{t \in [1..n -> points] : \A i, j \in 1..n : t[i] = t[j] => i = j} :
               n \in 0..Cardinality(points)}

InitWindow ==
    /\ stage = "targets"
    /\ df = WindowFrame
    /\ columns = PRICE_COLUMNS
    /\ market_sentiment \in {Table(t) : t \in Orderings(SentimentPoints)}
    /\ google_trends \in {Table(t) : t \in Orderings(TrendsPoints)}
    /\ prices_crypto = << >>
    /\ prices_stocks = << >>
    /\ prices = << >>
    /\ technical = << >>
    /\ run2 = NoRun
    /\ OtherScriptsIdle

NextWindow == MergeSentimentFeatures \/ MergeGoogleTrends

SpecWindow == InitWindow /\ [][NextWindow]_vars

(***************************************************************************)
(* The calming scenario: the close of both assets alternates between two   *)
(* prices up to the day `calm` and is constant from then on, so the width  *)
(* of the Bollinger bands shrinks over the 20 rows that follow.  Stages 4  *)
(* and 5 in a row.                                                         *)
(***************************************************************************)
CalmAt(i, calm, pat) == Num(IF i >= calm \/ i % 2 = 1 THEN pat[1] ELSE pat[2])

CalmCrypto(a, n, calm, pat) ==
    Tab(LAMBDA i : CryptoPrice(a, i, CalmAt(i, calm, pat), Num(10)), 1, n)

CalmStocks(a, n, calm, pat) ==
    Tab(LAMBDA i : StockPrice(a, i, CalmAt(i, calm, pat), Num(10)), 1, n)

InitSqueeze ==
    /\ stage = "raw"
    /\ \E n \in {MinObs, LongEnough + MaxExtra}, calm \in {30, 60} :
           prices_crypto = CalmCrypto(1, n, calm, << MaxPrice, 1 >>)
    /\ prices_stocks = CalmStocks(2, LongEnough, 45, << 20, 10 >>)
    /\ prices = << >>
    /\ technical = << >>
    /\ market_sentiment = None
    /\ google_trends = None
    /\ df = << >>
    /\ columns = << >>
    /\ run2 = NoRun
    /\ OtherScriptsIdle

SpecSqueeze == InitSqueeze /\ [][Next]_vars

(***************************************************************************)
(* The three main() functions on data directories whose price files are    *)
(* too poor for a final table: a file with no row, an asset with too few   *)
(* rows for stage 4, one with too few rows for the finalizer, one whose    *)
(* close never moves.                                                      *)
(***************************************************************************)
PoorCrypto ==
    {Table(<< >>),
     Table(CryptoSeries(1, MinObs \div 2, 2, << MaxPrice, 1 >>, 0)),
     Table(CryptoSeries(1, MinObs + MaxExtra, 2, << MaxPrice, 1 >>, 0)),
     Table(CryptoSeries(1, LongEnough + MaxExtra, 2, << MaxPrice, MaxPrice >>, 0)),
     Table(CryptoSeries(1, LongEnough + MaxExtra, 2, << MaxPrice, 1 >>, 0))}

PoorStocks == {Table(<< >>), Table(StockSeries(2, MinObs \div 2, 20, << 3, 1 >>, 25))}

InitEmpty ==
    /\ stage = "run3"
    /\ \E a \in ArticlesOnDisk, c \in PoorCrypto, s \in PoorStocks,
          t \in Range(TrendsFiles) :
           disk = [NoFiles EXCEPT !.articles = a, !.prices_crypto = c,
                                  !.prices_stocks = s, !.google_trends = t]
    /\ exit_status = NotRun
    /\ scorer = [use_transformer |-> FALSE, loads |-> FALSE]
    /\ articles = << >>
    /\ sentiment_df = << >>
    /\ mentions_df = << >>
    /\ df = << >>
    /\ columns = << >>
    /\ market_sentiment = None
    /\ google_trends = None
    /\ prices_crypto = << >>
    /\ prices_stocks = << >>
    /\ prices = << >>
    /\ technical = << >>
    /\ run2 = NoRun
    /\ spreadsheet = "none"
    /\ positions = << >>
    /\ loaded = << >>

SpecEmpty == InitEmpty /\ [][NextMain]_vars

(***************************************************************************)
(* google_sheets_client.py: the four worksheets that are rewritten by a    *)
(* save.  The spreadsheet maps a worksheet name to a worksheet; a          *)
(* worksheet is cleared, gets its header row and then the rows built from  *)
(* the caller's frame.                                                     *)
(***************************************************************************)
PORTFOLIO_HEADERS ==
    << "date", "cash", "positions_value", "total_value", "return", "positions_count" >>

TRADES_HEADERS ==
    << "asset", "entry_date", "exit_date", "entry_price", "exit_price", "quantity",
       "return", "holding_days", "reason" >>

RSS_HEADERS == << "date", "title", "category", "description", "link" >>

HEADERS ==
    ("portfolio_history" :> PORTFOLIO_HEADERS) @@ ("trades" :> TRADES_HEADERS)
    @@ ("rss_articles" :> RSS_HEADERS) @@ ("open_positions" :> OPEN_POSITIONS_HEADERS)

HeaderCells(headers) == Col(headers, LAMBDA k : Text(headers[k]))

(* gspread: Worksheet.clear, append_row, append_rows *)
clear_Nothing(worksheet) == worksheet

clear(worksheet) == Table(<< >>)

append_row(worksheet, row) == Table(worksheet.rows \o << row >>)

append_rows(worksheet, rows) == Table(worksheet.rows \o rows)

(* lines 46-54: a worksheet that is not found is added, with its headers *)
GetOrCreateWorksheet(sheets, name, headers) ==
    IF sheets[name].exists THEN sheets
    ELSE [sheets EXCEPT ![name] = append_row(Table(<< >>), HeaderCells(headers))]

(* lines 84-97, 134-151, 177-181, 268-273: clear, header, rows if any *)
Rewritten(worksheet, headers, rows) ==
    IF Len(rows) > 0
    THEN append_rows(append_row(clear(worksheet), HeaderCells(headers)), rows)
    ELSE append_row(clear(worksheet), HeaderCells(headers))

SaveRows(sheets, name, rows) ==
    [GetOrCreateWorksheet(sheets, name, HEADERS[name]) EXCEPT
        ![name] = Rewritten(GetOrCreateWorksheet(sheets, name, HEADERS[name])[name],
                            HEADERS[name], rows)]

(* int(x): the fraction is cut off *)
ToInt(x) ==
    PyInt(IF x.value.n >= 0 THEN x.value.n \div x.value.d
          ELSE -((-x.value.n) \div x.value.d))

(* lines 71-81 *)
PortfolioRow(row) ==
    << StampText(row.date), Number(ToFloat(row.cash)),
       Number(ToFloat(row.positions_value)), Number(ToFloat(row.total_value)),
       Number(ToFloat(row.return)), Number(ToInt(row.positions_count)) >>

(* lines 56-99 *)
save_portfolio_history(sheets, frame) ==
    SaveRows(sheets, "portfolio_history", Col(frame, LAMBDA i : PortfolioRow(frame[i])))

(* lines 119-132: row.get("quantity", 0) *)
TradeRow(row) ==
    << Text(row.asset), StampText(row.entry_date), StampText(row.exit_date),
       Number(ToFloat(row.entry_price)), Number(ToFloat(row.exit_price)),
       Number(ToFloat(IF Has(row, "quantity") THEN row.quantity ELSE PyInt(0))),
       Number(ToFloat(row.return)), Number(ToInt(row.holding_days)), Text(row.reason) >>

(* lines 101-153 *)
save_trades(sheets, frame) ==
    SaveRows(sheets, "trades", Col(frame, LAMBDA i : TradeRow(frame[i])))

DescriptionLimit == 200

(* a long text is its beginning and its length; text[:200] *)
Truncated(text) ==
    [kind |-> "text", text |-> text.begin,
     length |-> IF text.length > DescriptionLimit THEN DescriptionLimit ELSE text.length]

(* lines 165-174 *)
ArticleRow(row) ==
    << StampText(row.date), Text(row.title),
       Text(IF Has(row, "category") THEN row.category ELSE ""),
       Truncated(row.description), Text(row.link) >>

ArticleDay(row) == row.date.day

(* line 160: sort_values("date", ascending=False) *)
NewestFirst(frame) == Reverse(SortByKey(frame, ArticleDay, 0, MaxDate))

(* lines 155-183 *)
save_rss_articles(sheets, frame) ==
    SaveRows(sheets, "rss_articles",
             Col(NewestFirst(frame), LAMBDA i : ArticleRow(NewestFirst(frame)[i])))

(* lines 239-275, on the spreadsheet *)
SaveOpenPositionsRows(sheets, positions_dict, current_prices) ==
    SaveRows(sheets, "open_positions",
             Col(positions_dict, LAMBDA k : PositionRow(positions_dict[k], current_prices)))

MaxRows == 2

PortfolioRecords ==
    << [date |-> [day |-> 10, hour |-> 0], cash |-> PyInt(1000),
        positions_value |-> PyFloat(Rat(5, 2)), total_value |-> PyFloat(Rat(2005, 2)),
        return |-> PyFloat(Rat(1, 400)), positions_count |-> PyInt(1)],
       [date |-> [day |-> 11, hour |-> 0], cash |-> PyFloat(Rat(1801, 2)),
        positions_value |-> PyInt(100), total_value |-> PyFloat(Rat(2001, 2)),
        return |-> PyFloat(Rat(-1, 2000)), positions_count |-> PyFloat(Rat(5, 2))],
       [date |-> [day |-> 12, hour |-> 0], cash |-> PyInt(0),
        positions_value |-> PyInt(990), total_value |-> PyInt(990),
        return |-> PyFloat(Rat(-1, 100)), positions_count |-> PyInt(3)] >>

Trade(asset, day, quantity) ==
    [asset |-> asset, entry_date |-> [day |-> day, hour |-> 0],
     exit_date |-> [day |-> day + 3, hour |-> 0], entry_price |-> PyInt(100),
     exit_price |-> PyFloat(Rat(205, 2)), quantity |-> quantity,
     return |-> PyFloat(Rat(1, 40)), holding_days |-> PyInt(3), reason |-> "take_profit"]

TradeRecords ==
    << Trade("BTC", 10, PyInt(2)),
       [asset |-> "ETH", entry_date |-> [day |-> 11, hour |-> 0],
        exit_date |-> [day |-> 12, hour |-> 0], entry_price |-> PyInt(50),
        exit_price |-> PyInt(45), return |-> PyFloat(Rat(-1, 10)),
        holding_days |-> PyInt(1), reason |-> "stop_loss"],
       Trade("AAPL", 12, PyFloat(Rat(1, 2))) >>

RssRecords ==
    << [date |-> [day |-> 10, hour |-> 9], title |-> "Le CAC 40 en hausse",
        category |-> "marches", description |-> [begin |-> "Le CAC 40", length |-> 120],
        link |-> "https://agefi.example/1"],
       [date |-> [day |-> 12, hour |-> 15], title |-> "Bitcoin recule",
        description |-> [begin |-> "Le bitcoin", length |-> 260],
        link |-> "https://agefi.example/2"],
       [date |-> [day |-> 11, hour |-> 8], title |-> "LVMH publie",
        category |-> "luxe", description |-> [begin |-> "LVMH", length |-> 200],
        link |-> "https://agefi.example/3"] >>

(* the frames a caller hands in: up to MaxRows records in a row *)
Frames(records) ==
    {SubSeq(records, k, n) : k \in 1..2, n \in 1..(IF MaxRows < Len(records)
                                                   THEN MaxRows ELSE Len(records))}
    \cup {<< >>}

PositionRecords ==
    << PositionData("BTC", PyInt(2)), PositionData("ETH", PyFloat(Rat(3, 2))),
       PositionData("AAPL", PyInt(2)) >>

SheetNames == DOMAIN HEADERS

(* a worksheet left by an earlier run *)
LeftOver(name) ==
    Table(<< HeaderCells(HEADERS[name]), HeaderCells(HEADERS[name]) >>)

NoCall == [saved |-> FALSE, data |-> << >>, prices |-> << >>]

Call(data, current_prices) == [saved |-> TRUE, data |-> data, prices |-> current_prices]

InitReplace ==
    /\ stage = "sheets"
    /\ \E left \in {{}, {"trades", "open_positions"}} :
           spreadsheet = [name \in SheetNames |->
                              IF name \in left THEN LeftOver(name) ELSE None]
    /\ positions = [name \in SheetNames |-> NoCall]
    /\ loaded = NothingRead
    /\ articles = << >>
    /\ scorer = "none"
    /\ sentiment_df = << >>
    /\ mentions_df = << >>
    /\ disk = "none"
    /\ exit_status = "none"
    /\ df = << >>
    /\ columns = << >>
    /\ market_sentiment = None
    /\ google_trends = None
    /\ prices_crypto = << >>
    /\ prices_stocks = << >>
    /\ prices = << >>
    /\ technical = << >>
    /\ run2 = NoRun

Saved(name, data, current_prices) ==
    /\ positions' = [positions EXCEPT ![name] = Call(data, current_prices)]
    /\ stage' = name
    /\ UNCHANGED loaded
    /\ UNCHANGED not_in_sheets

SavePortfolioHistory ==
    \E frame \in Frames(PortfolioRecords) :
        /\ spreadsheet' = save_portfolio_history(spreadsheet, frame)
        /\ Saved("portfolio_history", frame, << >>)

SaveTrades ==
    \E frame \in Frames(TradeRecords) :
        /\ spreadsheet' = save_trades(spreadsheet, frame)
        /\ Saved("trades", frame, << >>)

SaveRssArticles ==
    \E frame \in Frames(RssRecords) :
        /\ spreadsheet' = save_rss_articles(spreadsheet, frame)
        /\ Saved("rss_articles", frame, << >>)

SavePositions ==
    \E positions_dict \in Frames(PositionRecords), current_prices \in PriceDicts :
        /\ spreadsheet' = SaveOpenPositionsRows(spreadsheet, positions_dict, current_prices)
        /\ Saved("open_positions", positions_dict, current_prices)

NextReplace == SavePortfolioHistory \/ SaveTrades \/ SaveRssArticles \/ SavePositions

SpecReplace == InitReplace /\ [][NextReplace]_vars

(***************************************************************************)
(* Properties of the Indicator Engine (stage 4)                            *)
(***************************************************************************)
Keys(rows) == {<< rows[i].asset, rows[i].date >> : i \in DOMAIN rows}

ObsCount(rows, a) == Cardinality({i \in DOMAIN rows : rows[i].asset = a})

(* C6: the (asset, date) keys of the output of calculate_technical_features *)
(* are exactly the input keys of the assets with at least 100 observations, *)
(* each kept once; an asset with fewer observations is absent and does not  *)
(* stop the others; the stage fails only when no asset has 100.             *)
C6_KeysOfAssetsWithEnoughData ==
    /\ stage = "technical" =>
          /\ Keys(technical) = {k \in Keys(prices) : ObsCount(prices, k[1]) >= 100}
          /\ Len(technical) = Cardinality(Keys(technical))
    /\ stage = "failed" => \A a \in Assets : ObsCount(prices, a) < 100

C6_Witness ==
    /\ stage = "technical"
    /\ \E a \in Assets : ObsCount(prices, a) = 50 /\ ObsCount(technical, a) = 0
    /\ \E a \in Assets : ObsCount(prices, a) = 100 /\ ObsCount(technical, a) = 100

(* C7: for every asset in the output, rsi is NaN on exactly the first 13   *)
(* rows of the asset's series and a number in [0, 100] on every later row. *)
C7_RsiDefinedFromRow14 ==
    stage = "technical" =>
        \A a \in Assets : \A i \in DOMAIN RowsOfAsset(technical, a) :
            IF i <= 13
            THEN IsNaN(RowsOfAsset(technical, a)[i].rsi)
            ELSE /\ IsNum(RowsOfAsset(technical, a)[i].rsi)
                 /\ ~FLt(RowsOfAsset(technical, a)[i].rsi, Num(0))
                 /\ ~FGt(RowsOfAsset(technical, a)[i].rsi, Num(100))

(* no close of rows i-13..i of the series is below the close before it:    *)
(* the average loss of the 14 deltas ending at row i is 0                  *)
AvgLossIsZero(rows, i) ==
    \A j \in (i - 13)..i : j > 1 => ~FLt(rows[j].close, rows[j - 1].close)

(* C8: whenever the average loss over the trailing 14-delta window is 0,   *)
(* the RSI is 100, also on a constant close series.                        *)
C8_RsiIs100WhenNoLoss ==
    stage = "technical" =>
        \A a \in Assets : \A i \in DOMAIN RowsOfAsset(technical, a) :
            (i >= 14 /\ AvgLossIsZero(RowsOfAsset(technical, a), i))
                => RowsOfAsset(technical, a)[i].rsi = Num(100)
(***************************************************************************)
(* Properties of the Label Generator (create_targets)                      *)
(***************************************************************************)
Horizons == {3, 7, 14}

(* C1: for every asset, every horizon H and every row t with at least H    *)
(* later rows in the asset's series, target_return_Hd at row t is          *)
(* close[t+H] / close[t] - 1.                                              *)
C1_ForwardReturn ==
    stage = "targets" =>
        \A a \in Assets : \A H \in Horizons : \A t \in DOMAIN RowsOfAsset(df, a) :
            t + H <= Len(RowsOfAsset(df, a)) =>
                RowsOfAsset(df, a)[t][TargetReturnName(H)]
                    = FSub(FDiv(RowsOfAsset(df, a)[t + H].close,
                                RowsOfAsset(df, a)[t].close), Num(1))

ClaimedThreshold(H) ==
    IF H < 7 THEN Rat(15, 1000) ELSE IF H < 14 THEN Rat(2, 100) ELSE Rat(3, 100)

IsMissing(r, col) ==
    IF col \in Range(META_COLS) THEN FALSE
    ELSE IF col = "market_position" THEN r[col] = NoCategory
    ELSE IsNaN(r[col])

(* C3: the output of finalize_dataset has no missing value in any column,  *)
(* identity, price, feature (market_position included) or target.          *)
C3_NoMissingValue ==
    stage = "final" =>
        \A i \in DOMAIN df : \A col \in DOMAIN df[i] : ~IsMissing(df[i], col)

(* C4: the output rows of finalize_dataset are sorted ascending by         *)
(* (asset, date); within an asset the dates strictly increase, so no       *)
(* (asset, date) pair occurs twice.                                        *)
C4_SortedByAssetDate ==
    stage = "final" =>
        \A i \in DOMAIN df : i < Len(df) =>
            \/ df[i].asset < df[i + 1].asset
            \/ df[i].asset = df[i + 1].asset /\ df[i].date < df[i + 1].date

C4_Witness ==
    /\ stage = "final"
    /\ \E i \in DOMAIN df : i < Len(df) /\ df[i].asset < df[i + 1].asset
    /\ \E i \in DOMAIN df : i < Len(df) /\ df[i].asset = df[i + 1].asset

Merged == {"sentiment", "trends", "engineered", "final"}

(* no row of the table is dated in the 7 days before D or on D *)
NoPointIn(rows, D) == \A k \in DOMAIN rows : ~(rows[k].date \in (D - 7)..D)

NoPointOf(rows, a, D) ==
    \A k \in DOMAIN rows : ~(rows[k].asset = a /\ rows[k].date \in (D - 7)..D)

Passing(frame) == {a \in Assets : ObsCount(frame, a) >= 100}

(* the observations of asset a dated D or earlier *)
ObservedUpTo(frame, a, D) == {r \in Range(frame) : r.asset = a /\ r.date <= D}

Indicators(r) == [col \in Range(TECHNICAL_COLUMNS) |-> r[col]]

(* C10: two runs of calculate_technical_features in which the same assets  *)
(* pass the 100-observation minimum give the same indicator values at      *)
(* (A, D) whenever their inputs hold the same observations of A dated D or *)
(* earlier, whatever A's later rows and the other assets' rows are.        *)
C10_CausalPerAsset ==
    (stage = "technical" /\ run2.stage = "technical"
         /\ Passing(prices) = Passing(run2.prices)) =>
        \A i \in DOMAIN technical : \A j \in DOMAIN run2.technical :
            (/\ technical[i].asset = run2.technical[j].asset
             /\ technical[i].date = run2.technical[j].date
             /\ ObservedUpTo(prices, technical[i].asset, technical[i].date)
                    = ObservedUpTo(run2.prices, technical[i].asset, technical[i].date))
                => Indicators(technical[i]) = Indicators(run2.technical[j])

C10_Witness ==
    /\ stage = "technical" /\ run2.stage = "technical"
    /\ Passing(prices) = Passing(run2.prices)
    /\ \E i \in DOMAIN technical : \E j \in DOMAIN run2.technical :
           /\ technical[i].asset = run2.technical[j].asset
           /\ technical[i].date = run2.technical[j].date
           /\ technical[i].date >= 14
           /\ ObservedUpTo(prices, technical[i].asset, technical[i].date)
                  = ObservedUpTo(run2.prices, technical[i].asset, technical[i].date)
           /\ \E k \in DOMAIN run2.prices :
                  /\ run2.prices[k].asset = technical[i].asset
                  /\ run2.prices[k].date > technical[i].date
                  /\ run2.prices[k] \notin Range(prices)
    /\ \E i \in DOMAIN technical : \E j \in DOMAIN run2.technical :
           /\ technical[i].asset = run2.technical[j].asset
           /\ technical[i].date = run2.technical[j].date
           /\ Indicators(technical[i]) # Indicators(run2.technical[j])

(***************************************************************************)
(* Properties of the lag window and of sparse auxiliary tables (stage 5)   *)
(***************************************************************************)
(* the rows of an auxiliary table dated on the 7 calendar days D-6 .. D *)
SevenDays(rows, D) == SelectSeq(rows, LAMBDA s : s.date \in (D - 6)..D)

SevenDaysOf(rows, a, D) ==
    SelectSeq(rows, LAMBDA s : s.asset = a /\ s.date \in (D - 6)..D)

SameFields(r, features, cols) == \A k \in DOMAIN cols : r[cols[k]] = features[cols[k]]

(* C11: with the default lag of 7 days the sentiment and search-interest   *)
(* features of a row at (asset, D) are those of the points dated D-6 .. D: *)
(* no point dated after D or before D-6 contributes.                       *)
C11_WindowIsSevenDays ==
    stage = "trends" =>
        \A i \in DOMAIN df :
            /\ market_sentiment.exists =>
                   SameFields(df[i],
                              SentimentFeatures(SevenDays(market_sentiment.rows, df[i].date)),
                              SENTIMENT_COLUMNS)
            /\ google_trends.exists =>
                   SameFields(df[i],
                              TrendsFeatures(SevenDaysOf(google_trends.rows, df[i].asset,
                                                         df[i].date)),
                              TRENDS_COLUMNS)

(* C12: whatever auxiliary tables the run finds (absent, or covering the   *)
(* dates partially, with single-event days and single-point windows),      *)
(* every row carries every sentiment and search-interest window feature as *)
(* a number.                                                               *)
C12_AuxiliaryFeaturesDefined ==
    stage = "trends" =>
        \A i \in DOMAIN df :
            \A col \in Range(SENTIMENT_COLUMNS) \cup Range(TRENDS_COLUMNS) :
                Has(df[i], col) /\ IsNum(df[i][col])

(***************************************************************************)
(* Trailing rows of the Label Generator                                    *)
(***************************************************************************)
LaterRows(frame, a, D) == Cardinality({r \in Range(frame) : r.asset = a /\ r.date > D})

(* C20: target_return_Hd is missing on exactly the last H rows of every    *)
(* asset's series, so the rows that the finalizer drops for a missing      *)
(* target are exactly the last 14 of every asset, and none of these is in  *)
(* its output.                                                             *)
C20_TrailingRowsMissing ==
    /\ stage = "targets" =>
           \A a \in Assets : \A H \in Horizons : \A t \in DOMAIN RowsOfAsset(df, a) :
               IsNaN(RowsOfAsset(df, a)[t][TargetReturnName(H)])
                   <=> t > Len(RowsOfAsset(df, a)) - H
    /\ stage = "engineered" =>
           Keys(DropNa(df, SelectSeq(columns, IsTarget)))
               = {k \in Keys(df) : LaterRows(df, k[1], k[2]) >= 14}
    /\ stage = "final" =>
           \A i \in DOMAIN df : LaterRows(technical, df[i].asset, df[i].date) >= 14

C20_Witness ==
    /\ stage = "final"
    /\ \E i \in DOMAIN df : LaterRows(technical, df[i].asset, df[i].date) = 14
    /\ \A a \in Assets : \E i \in DOMAIN df : df[i].asset = a

(***************************************************************************)
(* The constant-price scenario                                             *)
(***************************************************************************)
Computed == {"technical", "data", "targets", "sentiment", "trends", "engineered"}

(* the frame the pipeline holds before the finalizer *)
Frame == IF stage = "technical" THEN technical ELSE df

ZeroFrom(v, t, first) == IF t < first THEN IsNaN(v) ELSE v = Num(0)

(* C18 as claimed: on a constant close series the pipeline raises no error *)
(* and on every row volatility, momentum_7d, momentum_30d and bb_width are *)
(* 0 and target_direction_3d is 0.                                         *)
C18_ConstantPrice ==
    /\ stage # "failed"
    /\ stage \in Computed =>
           \A i \in DOMAIN Frame :
               /\ Frame[i].volatility = Num(0)
               /\ Frame[i].momentum_7d = Num(0)
               /\ Frame[i].momentum_30d = Num(0)
               /\ Frame[i].bb_width = Num(0)
               /\ Has(Frame[i], "target_direction_3d") => Frame[i].target_direction_3d = Num(0)

(* C18, amended: on a constant close series the pipeline raises no error;  *)
(* each of the four indicators is NaN on the rows of its warm-up (the      *)
(* first 20 rows for volatility, 7 for momentum_7d, 30 for momentum_30d,   *)
(* 19 for bb_width) and 0 on every later row, and target_direction_3d is 0 *)
(* on every row.                                                           *)
C18_ConstantPriceAfterWarmUp ==
    /\ stage # "failed"
    /\ stage \in Computed =>
           \A i \in DOMAIN Frame :
               /\ ZeroFrom(Frame[i].volatility, Frame[i].date, 21)
               /\ ZeroFrom(Frame[i].momentum_7d, Frame[i].date, 8)
               /\ ZeroFrom(Frame[i].momentum_30d, Frame[i].date, 31)
               /\ ZeroFrom(Frame[i].bb_width, Frame[i].date, 20)
               /\ Has(Frame[i], "target_direction_3d") => Frame[i].target_direction_3d = Num(0)

C18_Witness ==
    /\ stage = "engineered"
    /\ Len(df) = 120
    /\ \A i \in DOMAIN df : df[i].close = Num(100)
    /\ IsNaN(df[20].volatility) /\ df[21].volatility = Num(0)
    /\ df[120].target_direction_3d = Num(0)

(***************************************************************************)
(* Properties of the sentiment stage (stage 3)                             *)
(***************************************************************************)
Scored == {"scored", "mentions", "aggregated"}

(* C14: with the external scorer in use, an article on whose text the      *)
(* scorer raises gets the keyword score, every other article keeps the     *)
(* score the external scorer gave it, and the result has one record per    *)
(* input article, in input order.                                          *)
C14_ScoringFailureIsolated ==
    (stage \in Scored /\ scorer.use_transformer /\ scorer.loads) =>
        /\ Len(sentiment_df) = Len(df)
        /\ \A i \in DOMAIN df :
               /\ sentiment_df[i].index = i - 1
               /\ DOMAIN sentiment_df[i]
                      = {"index", "sentiment_score", "sentiment_label", "confidence"}
               /\ sentiment_df[i].sentiment_score
                      = IF df[i].stars = 0
                        THEN analyze_sentiment_simple(df[i].text)
                        ELSE Rat(df[i].stars - 3, 2)

C14_Witness ==
    /\ stage = "scored" /\ scorer.use_transformer /\ scorer.loads
    /\ \E i \in DOMAIN df : df[i].stars = 0
    /\ \E i \in DOMAIN df :
           /\ df[i].stars # 0
           /\ sentiment_df[i].sentiment_score # analyze_sentiment_simple(df[i].text)

(* C15: whichever path produced the score, the label is positive iff the   *)
(* score is above 0.2, negative iff it is below -0.2 and neutral           *)
(* otherwise, and the score lies in [-1, 1].                               *)
C15_LabelPolicy ==
    stage \in Scored =>
        \A i \in DOMAIN sentiment_df :
            /\ sentiment_df[i].sentiment_label = "positive"
                   <=> FGt(sentiment_df[i].sentiment_score, Rat(1, 5))
            /\ sentiment_df[i].sentiment_label = "negative"
                   <=> FLt(sentiment_df[i].sentiment_score, Rat(-1, 5))
            /\ sentiment_df[i].sentiment_label \in {"positive", "negative", "neutral"}
            /\ ~FLt(sentiment_df[i].sentiment_score, Num(-1))
            /\ ~FGt(sentiment_df[i].sentiment_score, Num(1))

C15_Witness ==
    /\ stage = "scored"
    /\ \E i \in DOMAIN sentiment_df :
           /\ sentiment_df[i].sentiment_score = Rat(1, 5)
           /\ sentiment_df[i].sentiment_label = "neutral"
    /\ \E i \in DOMAIN sentiment_df :
           /\ sentiment_df[i].sentiment_score = Rat(-1, 5)
           /\ sentiment_df[i].sentiment_label = "neutral"
    /\ \E i \in DOMAIN sentiment_df : sentiment_df[i].sentiment_label = "positive"

(* the sentiment records of the events of calendar date d: record i is the *)
(* record of article i of the frame that was scored                        *)
RecordsOn(d) ==
    SelectSeq(sentiment_df, LAMBDA r : CalendarDate(df[r.index + 1].date) = d)

EventDates == {CalendarDate(df[i].date) : i \in DOMAIN df}

(* C16: the aggregator's output has one row per calendar date with at      *)
(* least one event and none for another date; a row's mean, min and max    *)
(* are those of the date's scores and its balance is the number of the     *)
(* date's positive events minus the number of its negative events.         *)
C16_OneRowPerEventDate ==
    stage = "aggregated" =>
        /\ {market_sentiment.rows[k].date : k \in DOMAIN market_sentiment.rows} = EventDates
        /\ Len(market_sentiment.rows) = Cardinality(EventDates)
        /\ \A k \in DOMAIN market_sentiment.rows :
               /\ market_sentiment.rows[k].sentiment_mean
                      = SeriesMean(ScoreOf(RecordsOn(market_sentiment.rows[k].date)))
               /\ market_sentiment.rows[k].sentiment_min
                      = SeriesMin(ScoreOf(RecordsOn(market_sentiment.rows[k].date)))
               /\ market_sentiment.rows[k].sentiment_max
                      = SeriesMax(ScoreOf(RecordsOn(market_sentiment.rows[k].date)))
               /\ market_sentiment.rows[k].sentiment_balance
                      = Num(CountLabel(RecordsOn(market_sentiment.rows[k].date), "positive")
                            - CountLabel(RecordsOn(market_sentiment.rows[k].date), "negative"))

EventsOf(d) == Cardinality({i \in DOMAIN df : CalendarDate(df[i].date) = d})

MissingInput(script, d) ==
    CASE script = 3 -> ~d.articles.exists
      [] script = 4 -> ~d.prices_crypto.exists \/ ~d.prices_stocks.exists
      [] script = 5 -> ~d.technical_features.exists

(* C13: when a file a stage requires is absent (either price file for      *)
(* stage 4, technical_features for stage 5, the article file for stage 3), *)
(* its main() ends with an error and the disk is as it was before the run: *)
(* none of its output files is written.                                    *)
C13_MissingInputAborts ==
    [][\A script \in {3, 4, 5} :
           (exit_status'.script = script /\ MissingInput(script, disk))
               => (exit_status'.code = 1 /\ disk' = disk)]_vars

(* the three scripts have run: the articles and the stock prices were      *)
(* missing, so stage 4 wrote no technical_features and stage 5 aborted too *)
C13_Witness ==
    /\ stage = "ran"
    /\ exit_status = [script |-> 5, code |-> 1]
    /\ ~disk.articles.exists /\ disk.prices_crypto.exists /\ ~disk.prices_stocks.exists
    /\ ~disk.sentiment_scores.exists /\ ~disk.market_sentiment.exists
    /\ ~disk.technical_features.exists /\ ~disk.technical_aggregates.exists
    /\ ~disk.features_final.exists /\ ~disk.features_sample.exists

(***************************************************************************)
(* The open positions of the spreadsheet                                   *)
(***************************************************************************)
KeysOf(dict) == {dict[i].key : i \in DOMAIN dict}

POSITION_KEYS == {"quantity", "entry_price", "entry_date", "current_price"}

SameAmounts(read, saved) ==
    /\ PyEq(read.quantity, saved.quantity)
    /\ PyEq(read.entry_price, saved.entry_price)

(* the entries get_open_positions returned agree with the saved dict on    *)
(* the keys, the quantity and the entry price                              *)
ReadWhatWasSaved ==
    /\ KeysOf(loaded.dict) = KeysOf(positions.dict)
    /\ \A i \in DOMAIN loaded.dict :
           SameAmounts(loaded.dict[i].value,
                       DictGet(positions.dict, loaded.dict[i].key, loaded.dict[i].value))

(* C19: get_open_positions after save_open_positions(P, prices) returns a  *)
(* dict keyed by exactly the assets of P, each entry holds quantity,       *)
(* entry_price, entry_date and current_price, quantity and entry_price are *)
(* the saved values, and a read that fails returns the empty dict.         *)
C19_OpenPositionsRoundTrip ==
    loaded.read =>
        /\ loaded.failed => loaded.dict = << >>
        /\ (positions.saved /\ ~loaded.failed) =>
               /\ ReadWhatWasSaved
               /\ \A i \in DOMAIN loaded.dict :
                      POSITION_KEYS \subseteq DOMAIN loaded.dict[i].value

(***************************************************************************)
(* The fill policy of the Dataset Finalizer                                *)
(***************************************************************************)
(* the rows of asset a that have all their targets, in date order *)
WithTargets(frame, cols, a) == RowsOfAsset(DropNa(frame, SelectSeq(cols, IsTarget)), a)

EarlierWith(rows, i, col) == {j \in 1..(i - 1) : ~IsNaN(rows[j][col])}

LaterWith(rows, i, col) == {j \in (i + 1)..Len(rows) : ~IsNaN(rows[j][col])}

Nearest(js, i) == CHOOSE j \in js : \A k \in js : Abs(k - i) >= Abs(j - i)

(* the row the value of col in row i is to come from, 0 when there is none *)
FillSource(rows, i, col) ==
    IF ~IsNaN(rows[i][col]) THEN i
    ELSE IF EarlierWith(rows, i, col) # {} THEN Nearest(EarlierWith(rows, i, col), i)
    ELSE IF LaterWith(rows, i, col) # {} THEN Nearest(LaterWith(rows, i, col), i)
    ELSE 0

OutputRows(final, a, D) == SelectSeq(final, LAMBDA r : r.asset = a /\ r.date = D)

FilledAsClaimed(rows, i, feature_cols, out) ==
    IF \E k \in DOMAIN feature_cols : FillSource(rows, i, feature_cols[k]) = 0
    THEN Len(out) = 0
    ELSE /\ Len(out) = 1
         /\ \A k \in DOMAIN feature_cols :
                out[1][feature_cols[k]]
                    = rows[FillSource(rows, i, feature_cols[k])][feature_cols[k]]

AssetFilledAsClaimed(rows, feature_cols, final) ==
    \A i \in DOMAIN rows :
        FilledAsClaimed(rows, i, feature_cols,
                        OutputRows(final, rows[i].asset, rows[i].date))

HasForwardFill(rows, feature_cols) ==
    \E i \in DOMAIN rows : \E k \in DOMAIN feature_cols :
        /\ IsNaN(rows[i][feature_cols[k]])
        /\ EarlierWith(rows, i, feature_cols[k]) # {}
        /\ LaterWith(rows, i, feature_cols[k]) # {}
        /\ rows[FillSource(rows, i, feature_cols[k])][feature_cols[k]]
               # rows[Nearest(LaterWith(rows, i, feature_cols[k]), i)][feature_cols[k]]
        /\ \A c \in DOMAIN feature_cols : FillSource(rows, i, feature_cols[c]) # 0

HasBackwardFill(rows, feature_cols) ==
    /\ IsNaN(rows[1].rsi)
    /\ \A c \in DOMAIN feature_cols : FillSource(rows, 1, feature_cols[c]) > 0

NonTarget(r) == {col \in DOMAIN r : ~IsTarget(col)}

SameFeatures(r1, r2, cols) == \A col \in cols : r1[col] = r2[col]

AgreeUpTo(final1, final2, day, cols) ==
    \A i \in DOMAIN final1 : \A j \in DOMAIN final2 :
        (/\ final1[i].asset = final2[j].asset
         /\ final1[i].date = final2[j].date
         /\ final1[i].date <= day)
            => SameFeatures(final1[i], final2[j], cols \cap NonTarget(final1[i]))

BothRan == stage = "ran" /\ run2.stage = "reran" /\ exit_status.code = 0 /\ run2.code = 0

AllColumns == Range(Columns5(TRUE, TRUE))

(* C22: two runs whose price, sentiment and search-interest data agree on  *)
(* everything dated D or earlier give the same value to every column of    *)
(* the row (asset, D) of the final table that is no target_* column.       *)
C22_NoLookAhead ==
    BothRan =>
        AgreeUpTo(disk.features_final.rows, run2.disk.features_final.rows, run2.day,
                  AllColumns)

(***************************************************************************)
(* The column order of the Dataset Finalizer                               *)
(***************************************************************************)
(* the columns in the order in which the pipeline makes them *)
PipelineOrder(cols) == SelectSeq(Columns5(TRUE, TRUE), LAMBDA c : c \in Range(cols))

GroupOf(col) ==
    IF col \in Range(META_COLS) THEN 1
    ELSE IF col \in Range(PRICE_COLS) THEN 2
    ELSE IF IsTarget(col) THEN 4
    ELSE 3

(* identity columns, then prices, then features, then targets *)
GroupedInOrder(cols) ==
    /\ SubSeq(cols, 1, 8) = META_COLS \o PRICE_COLS
    /\ \A i, j \in DOMAIN cols : i < j => GroupOf(cols[i]) <= GroupOf(cols[j])

(* C23: the output columns are date, asset, asset_type, then open, high,   *)
(* low, close, volume, then the feature columns, then the target_*         *)
(* columns, and the order is the one of the pipeline's own run whatever    *)
(* order the feature and target columns were made in.                      *)
C23_ColumnOrder ==
    stage = "final" =>
        /\ GroupedInOrder(columns)
        /\ columns = OrderedColumns(PipelineOrder(columns))

(***************************************************************************)
(* The trend over the lag window                                           *)
(***************************************************************************)
InWindow(points, D) == {p \in Range(points) : InLagWindow(p.date, D, SENTIMENT_LAG_DAYS)}

Latest(points) == CHOOSE p \in points : \A q \in points : q.date <= p.date

Earliest(points) == CHOOSE p \in points : \A q \in points : q.date >= p.date

(* latest-dated minus earliest-dated, 0 for at most one point *)
ClaimedTrend(points, name) ==
    IF Cardinality(points) <= 1 THEN Num(0)
    ELSE FSub(Latest(points)[name], Earliest(points)[name])

PointsOfAsset(points, a) == SelectSeq(points, LAMBDA p : p.asset = a)

(* C24: on every feature row sentiment_trend_7d and                        *)
(* trends_interest_trend_7d are the value at the latest-dated point of the *)
(* lag window minus the value at its earliest-dated point, and 0 when the  *)
(* window holds at most one point, whatever the row order of the table.    *)
C24_WindowTrend ==
    /\ stage \in {"sentiment", "trends"} =>
           \A i \in DOMAIN df :
               df[i].sentiment_trend_7d
                   = ClaimedTrend(InWindow(market_sentiment.rows, df[i].date),
                                  "sentiment_mean")
    /\ stage = "trends" =>
           \A i \in DOMAIN df :
               df[i].trends_interest_trend_7d
                   = ClaimedTrend(InWindow(PointsOfAsset(google_trends.rows, df[i].asset),
                                           df[i].date),
                                  "interest")

(***************************************************************************)
(* The Bollinger squeeze flag                                              *)
(***************************************************************************)
(* the 20th percentile of the asset's own bb_width over its 20 rows that   *)
(* end at row t                                                            *)
OwnSqueezeLevel(rows, t) ==
    Quantile(SubSeq(ColumnOf(rows, "bb_width"), IF t > 20 THEN t - 19 ELSE 1, t), 1, 5)

SqueezeAsClaimed(rows) ==
    \A t \in DOMAIN rows :
        rows[t].bb_squeeze_extreme = Num(1)
            <=> FLt(rows[t].bb_width, OwnSqueezeLevel(rows, t))

(* C25: bb_squeeze_extreme at row (A, D) is 1 iff A's bb_width at D is     *)
(* below the 20th percentile of A's own bb_width over A's 20 rows ending   *)
(* at D, and 0 otherwise: the rows of the other assets have no part in it. *)
C25_SqueezePerAsset ==
    stage = "engineered" =>
        \A a \in Assets :
            /\ SqueezeAsClaimed(RowsOfAsset(df, a))
            /\ \A t \in DOMAIN RowsOfAsset(df, a) :
                   RowsOfAsset(df, a)[t].bb_squeeze_extreme \in {Num(0), Num(1)}

(* asset 2 follows asset 1 in the table, so the 20 table rows that end at  *)
(* one of its first rows hold bb_width values of asset 1; asset 2 has rows *)
(* with the flag and rows without it                                       *)
C25_Witness ==
    /\ stage = "engineered"
    /\ Len(RowsOfAsset(df, 1)) >= 20
    /\ \E i \in DOMAIN df :
           /\ df[i].asset = 2 /\ df[i - 1].asset = 1
           /\ ~IsNaN(df[i - 1].bb_width)
    /\ \E i \in DOMAIN df : df[i].asset = 2 /\ df[i].bb_squeeze_extreme = Num(1)
    /\ \E i \in DOMAIN df :
           df[i].asset = 2 /\ df[i].bb_squeeze_extreme = Num(0) /\ ~IsNaN(df[i].bb_width)

(***************************************************************************)
(* Empty datasets                                                          *)
(***************************************************************************)
NeverEmpty(file) == file.exists => Len(file.rows) > 0

(* stage 4 ends with an error, and writes no technical_features, when no   *)
(* asset has the 100 observations                                          *)
Stage4AbortsWhenEmpty ==
    /\ NeverEmpty(disk.technical_features)
    /\ exit_status = [script |-> 4, code |-> 0] => disk.technical_features.exists

(* C26: a stage whose dataset is empty, because stage 4 dropped every      *)
(* asset or because the finalizer dropped every row, ends with an error    *)
(* before it writes its table: technical_features and features_final are   *)
(* never written without a row.                                            *)
C26_EmptyDatasetAborts ==
    /\ Stage4AbortsWhenEmpty
    /\ NeverEmpty(disk.features_final)
    /\ exit_status = [script |-> 5, code |-> 0] => disk.features_final.exists

(***************************************************************************)
(* The tables handed to the functions of the sentiment stage.               *)
(***************************************************************************)
FunctionsOfStage3 == {"loaded_articles", "scored", "mentions"}

(* C27: every pipeline function leaves the table handed to it as it was    *)
(* (same columns, same values), and no function needs a column another     *)
(* function added to the shared table: the article table stays what the    *)
(* loader returned through analyze_sentiment_transformer,                  *)
(* detect_asset_mentions and calculate_market_sentiment, and               *)
(* detect_asset_mentions works on the table as loaded.                     *)
C27_InputsUnchanged ==
    [][/\ stage \in FunctionsOfStage3 => df' = df
       /\ stage = "loaded_articles" /\ Len(df) > 0 => detect_asset_mentions(df).ok]_vars

(* the table main() of stage 3 writes to sentiment_scores.csv *)
ScoredArticles == FinalFrame(df, sentiment_df, mentions_df)

(* row i of the written table is article i with the score computed from it *)
PairedWithOwnScore(i) ==
    /\ ScoredArticles[i].date = df[i].date
    /\ ScoredArticles[i].text = df[i].text
    /\ ScoredArticles[i].sentiment_score = sentiment_df[i].sentiment_score
    /\ ScoredArticles[i].sentiment_label = sentiment_df[i].sentiment_label

(* C28: for any article file, also one with records dropped for a date     *)
(* that cannot be parsed, the written table has as many rows as articles   *)
(* were kept, each kept article carries the score and label computed from  *)
(* its own text, and the daily mean of a date is the mean of the scores of *)
(* the articles of that date.                                              *)
C28_ArticleScorePairing ==
    stage = "aggregated" =>
        /\ Len(ScoredArticles) = Len(df)
        /\ \A i \in DOMAIN df : PairedWithOwnScore(i)
        /\ \A k \in DOMAIN market_sentiment.rows :
               market_sentiment.rows[k].sentiment_mean
                   = SeriesMean(ScoreOf(RecordsOn(market_sentiment.rows[k].date)))

(* the bucket of (0, 30], (30, 70], (70, 100] that holds an rsi value *)
InBucket(rsi, low, high) == FGt(rsi, Num(low)) /\ ~FGt(rsi, Num(high))

FlagsFollowRsi(r) ==
    /\ r.is_oversold = Num(1) <=> InBucket(r.rsi, 0, 30)
    /\ r.is_overbought = Num(1) <=> InBucket(r.rsi, 70, 100)
    /\ ~(r.is_oversold = Num(1) /\ r.is_overbought = Num(1))

PositionFollowsRsi(r) ==
    /\ InBucket(r.rsi, 0, 30) => r.market_position = "oversold"
    /\ InBucket(r.rsi, 30, 70) => r.market_position = "neutral"
    /\ InBucket(r.rsi, 70, 100) => r.market_position = "overbought"

(* C29: in every row of the Finalizer's output is_oversold is 1 iff the    *)
(* row's rsi is in (0, 30], is_overbought is 1 iff it is in (70, 100], the *)
(* two flags are never both 1 and market_position names the bucket of the  *)
(* row's rsi, also in the rows whose rsi the Finalizer filled.             *)
C29_RsiFlagsConsistent ==
    stage = "final" =>
        \A i \in DOMAIN df : FlagsFollowRsi(df[i]) /\ PositionFollowsRsi(df[i])

(***************************************************************************)
(* Properties of the Google Sheets client: the worksheets that are         *)
(* rewritten                                                               *)
(***************************************************************************)
(* the rows a save builds from what the caller handed in *)
RowsOfCall(name, call) ==
    IF name = "portfolio_history" THEN Col(call.data, LAMBDA i : PortfolioRow(call.data[i]))
    ELSE IF name = "trades" THEN Col(call.data, LAMBDA i : TradeRow(call.data[i]))
    ELSE IF name = "rss_articles"
    THEN Col(NewestFirst(call.data), LAMBDA i : ArticleRow(NewestFirst(call.data)[i]))
    ELSE Col(call.data, LAMBDA i : PositionRow(call.data[i], call.prices))

OneHeaderThenRows(name, call) ==
    Table(<< Col(HEADERS[name], LAMBDA k : Text(HEADERS[name][k])) >> \o RowsOfCall(name, call))

(* C30: after any sequence of saves, the first one included, a worksheet   *)
(* that was saved holds one header row and then the rows of its most       *)
(* recent save; saving the same data again leaves the content as it was,   *)
(* and a save for one worksheet leaves the other worksheets unchanged.     *)
C30_ReplaceSemantics ==
    [][\A name \in SheetNames :
           /\ positions'[name].saved
                  => spreadsheet'[name] = OneHeaderThenRows(name, positions'[name])
           /\ positions'[name] = positions[name] /\ (positions[name].saved \/ stage' # name)
                  => spreadsheet'[name] = spreadsheet[name]]_vars

C30_Witness ==
    /\ stage = "trades"
    /\ \A name \in SheetNames : positions[name].saved
    /\ Len(positions["trades"].data) = 0
    /\ Len(spreadsheet["trades"].rows) = 1
    /\ Len(spreadsheet["rss_articles"].rows) = 3
    /\ spreadsheet["rss_articles"].rows[2][1].day > spreadsheet["rss_articles"].rows[3][1].day
    /\ Len(spreadsheet["open_positions"].rows) = 2

====
